---- MODULE Spec2Model ----
(***************************************************************************)
(* A model of the splatter engine of pivot-blender-bridge:                 *)
(*   - the JSON-over-stdin request loop of main.cpp (specification Spec),  *)
(*   - the wire detector elim_wires of bounds.cpp (SpecWire),              *)
(*   - the minimum-bounding-box search of engine.cpp / bounds.cpp          *)
(*     (SpecMbb).                                                          *)
(* Texts (request values) are sequences of one-character strings; a few    *)
(* multi-character words ("prepare", segment names) are kept as one token  *)
(* where the code only compares them as a whole.                           *)
(***************************************************************************)
EXTENDS Integers, Sequences, FiniteSets, TLC

VARIABLES
    \* ---- main.cpp: the request loop
    pc,           \* "read": at std::getline; "handle": a line was read, body not
                  \* run; "done": the body has run for that line
    status,       \* "running" | "exited" (return from main) | "aborted" (process killed)
    exitCode,     \* exit status once status = "exited", -1 before
    line,         \* the line of the current iteration
    resp,         \* the response lines written to stdout in the current iteration
    nout,         \* number of response lines written since start
    served,       \* number of lines read since start
    shmOpened,    \* the handler of the last line opened a shared memory region
    pipelineRan,  \* the handler of the last line called prepare_object_batch
    \* ---- bounds.cpp: elim_wires
    wpc, adj_verts, linearity_scores, is_wire, init_wire, group_visited,
    boundary_indices, queue, promoted, wi,
    \* ---- engine.cpp: calc_rot_to_forward / bounds.cpp: align_min_bounds
    mpc,          \* "start" | "search" | "done" ("off" when not under analysis)
    variant,      \* which of the two copies of the search runs
    hull,         \* the convex hull handed to the search
    angles,       \* the result of get_edge_angles_2D
    mk,           \* number of angles the for loop has consumed
    best_box,     \* [area, rotation_angle] of the best box so far
    best_idx,     \* history: index of the angle that last replaced best_box, 0 if none
    out_rot,      \* the rotation the search returned
    \* ---- analysis.cpp: calc_cog_volume_edges_intersections
    spc,          \* position in the driver ("off" when not under analysis)
    s_in,         \* the arguments of the call
    s_touched,    \* history: the vertex or edge buffer has been read
    slices,       \* [z_lower, z_upper] of every slice
    slice_edges,  \* per slice, the indices of the edges bucketed into it
    slice_vertices, \* per slice, the indices of the vertices bucketed into it
    s_pts,        \* per slice, the intersection points build_slice_islands added
    s_ret,        \* the value returned
    \* ---- analysis.cpp: the global union-find of the driver
    upc, uf_n, uf_edges, uf_parent, uf_rank, uf_ei, vertex_comp,
    \* ---- engine.cpp / bounds.cpp: build_adj_vertices
    apc,          \* "start" | "done" ("off" when not under analysis)
    a_variant,    \* "edges" (engine.cpp) | "faces" (bounds.cpp)
    a_vertCount, a_in,   \* the vertex count and the edge or face list
    out_adj,      \* the adjacency lists
    a_oob,        \* history: an element outside 0..vertCount-1 was accessed
    a_status,     \* "running" | "returned" | "crashed"
    \* ---- analysis.cpp: the slice count and the loops over the slices
    cpc,          \* "start" | "fill" | "islands" | "done" ("off" when not under analysis)
    c_in,         \* [span, h]: total_h and slice_height of the call
    raw_count,    \* uint32_t raw_count
    c_count,      \* uint8_t slice_count
    c_len,        \* slices.size()
    c_si,         \* the uint8_t loop counter
    c_order,      \* history: the slice indices the running loop has visited, in order
    \* ---- bounds.cpp: elim_wires, the linearity scores (lines 261-359)
    gpc,          \* "gather" | "score" | "final" | "done" ("off" when not under analysis)
    g_adj, g_pos, \* the adjacency lists and the position of every vertex on a line
    g_lin,        \* per source, the linearity eig3 yields for its neighborhood
    g_src,        \* the loop variable i of the loop over the sources
    pq,           \* the priority queue: a set of <<distance, vertex>>
    visit_tag, graph_dist, neighbor_idxs,
    g_votes,      \* per vertex, the votes added to votes[] and total_weights[]
    g_scores,     \* linearity_scores
    g_fin,        \* history: <<vertex, distance>> of every push_back into neighbor_idxs
    fin_by,       \* history: per vertex, <<source, distance>> of the gathers that finalized it
    \* ---- analysis.cpp: build_slice_islands, the two passes over one slice
    bpc,          \* "count_verts" | "count_edges" | "alloc" | "place_verts" |
                  \* "place_edges" | "done" | "fault" ("off" when not under analysis)
    b_in,         \* the arguments of the call
    b_k,          \* number of elements the running loop has consumed
    component_sizes, component_starts, current_pos,
    all_points    \* per cell of the point array, the points written to it, in order

ipcVars == <<pc, status, exitCode, line, resp, nout, served, shmOpened, pipelineRan>>
wireVars == <<wpc, adj_verts, linearity_scores, is_wire, init_wire, group_visited,
              boundary_indices, queue, promoted, wi>>
mbbVars == <<mpc, variant, hull, angles, mk, best_box, best_idx, out_rot>>
sliceVars == <<spc, s_in, s_touched, slices, slice_edges, slice_vertices, s_pts, s_ret>>
ufVars == <<upc, uf_n, uf_edges, uf_parent, uf_rank, uf_ei, vertex_comp>>
adjVars == <<apc, a_variant, a_vertCount, a_in, out_adj, a_oob, a_status>>
countVars == <<cpc, c_in, raw_count, c_count, c_len, c_si, c_order>>
gatherVars == <<gpc, g_adj, g_pos, g_lin, g_src, pq, visit_tag, graph_dist,
                neighbor_idxs, g_votes, g_scores, g_fin, fin_by>>
islandVars == <<bpc, b_in, b_k, component_sizes, component_starts, current_pos,
                all_points>>
otherVars == <<countVars, gatherVars, islandVars>>
vars == <<ipcVars, wireVars, mbbVars, sliceVars, ufVars, adjVars, otherVars>>

\* the components that are not under analysis in a specification
SliceIdle ==
    /\ spc = "off" /\ s_in = <<>> /\ s_touched = FALSE /\ slices = <<>>
    /\ slice_edges = <<>> /\ slice_vertices = <<>> /\ s_pts = <<>> /\ s_ret = <<>>
UfIdle ==
    /\ upc = "off" /\ uf_n = 0 /\ uf_edges = <<>> /\ uf_parent = <<>>
    /\ uf_rank = <<>> /\ uf_ei = 0 /\ vertex_comp = <<>>
AdjIdle ==
    /\ apc = "off" /\ a_variant = "none" /\ a_vertCount = 0 /\ a_in = <<>>
    /\ out_adj = <<>> /\ a_oob = FALSE /\ a_status = "off"
CountIdle ==
    /\ cpc = "off" /\ c_in = <<>> /\ raw_count = <<>> /\ c_count = 0 /\ c_len = 0
    /\ c_si = 0 /\ c_order = <<>>
GatherIdle ==
    /\ gpc = "off" /\ g_adj = <<>> /\ g_pos = <<>> /\ g_lin = <<>> /\ g_src = 0
    /\ pq = {} /\ visit_tag = <<>> /\ graph_dist = <<>> /\ neighbor_idxs = <<>>
    /\ g_votes = <<>> /\ g_scores = <<>> /\ g_fin = <<>> /\ fin_by = <<>>
IslandIdle ==
    /\ bpc = "off" /\ b_in = <<>> /\ b_k = 0 /\ component_sizes = <<>>
    /\ component_starts = <<>> /\ current_pos = <<>> /\ all_points = <<>>
OtherIdle == CountIdle /\ GatherIdle /\ IslandIdle


\* ------------------------------------------------------------------------
\* Bounds of the model
\* ------------------------------------------------------------------------
MaxLines == 2        \* lines read from stdin in one run
NumVertsInShm == 3   \* Vec3 entries in the "verts" array of the vertex region
NumEdgesInShm == 3   \* uVec2i entries in the "edges" array of the edge region

\* ------------------------------------------------------------------------
\* Small helpers on sequences
\* ------------------------------------------------------------------------
Range(s) == {s[i] : i \in DOMAIN s}

RECURSIVE SumSeq(_)
SumSeq(s) == IF s = <<>> THEN 0 ELSE s[1] + SumSeq(Tail(s))

Min2(a, b) == IF a < b THEN a ELSE b

\* ------------------------------------------------------------------------
\* Texts
\* ------------------------------------------------------------------------
Q == "\""
Digits == {"0", "1", "2", "3", "4", "5", "6", "7", "8", "9"}
IsDigit(c) == c \in Digits
DigitVal(c) ==
    CASE c = "0" -> 0 [] c = "1" -> 1 [] c = "2" -> 2 [] c = "3" -> 3 [] c = "4" -> 4
      [] c = "5" -> 5 [] c = "6" -> 6 [] c = "7" -> 7 [] c = "8" -> 8 [] c = "9" -> 9
IsBlank(c) == c \in {" ", "\t", "\r", "\n"}

Some(t) == [has |-> TRUE, val |-> t]
None == [has |-> FALSE, val |-> <<>>]

\* std::string::find_first_not_of / find_last_not_of(" \t\r\n") of get_value
RECURSIVE TrimLeft(_)
TrimLeft(t) == IF t # <<>> /\ IsBlank(t[1]) THEN TrimLeft(Tail(t)) ELSE t
RECURSIVE TrimRight(_)
TrimRight(t) ==
    IF t # <<>> /\ IsBlank(t[Len(t)]) THEN TrimRight(SubSeq(t, 1, Len(t) - 1)) ELSE t

\* get_value: the value of the first top-level field holding "key": with the
\* blanks around it removed, or nullopt.  A request line is modelled already
\* split into its top-level fields (split_top_level_fields), as a function
\* from keys to optional raw value texts.
GetValue(l, key) ==
    IF l.kind # "req" \/ ~l.fields[key].has THEN None
    ELSE Some(TrimRight(TrimLeft(l.fields[key].val)))

\* std::stoi: skips leading blanks, takes an optional sign and the longest
\* run of digits, ignores what follows; throws std::invalid_argument when
\* there is no digit and std::out_of_range when the number does not fit an
\* int.  Nothing in main catches either.
RECURSIVE DigitRun(_)
DigitRun(t) == IF t # <<>> /\ IsDigit(t[1]) THEN <<t[1]>> \o DigitRun(Tail(t)) ELSE <<>>
RECURSIVE DecValue(_)
DecValue(ds) ==
    IF ds = <<>> THEN 0 ELSE 10 * DecValue(SubSeq(ds, 1, Len(ds) - 1)) + DigitVal(ds[Len(ds)])
\* the digits of INT_MAX = 2147483647 and of -INT_MIN
IntMaxDigits == <<"2", "1", "4", "7", "4", "8", "3", "6", "4", "7">>
IntMinDigits == <<"2", "1", "4", "7", "4", "8", "3", "6", "4", "8">>
RECURSIVE StripZeros(_)
StripZeros(ds) == IF ds # <<>> /\ ds[1] = "0" THEN StripZeros(Tail(ds)) ELSE ds
RECURSIVE DigitsAbove(_, _)
DigitsAbove(a, b) ==          \* a > b, for digit runs of one length
    /\ a # <<>>
    /\ \/ DigitVal(a[1]) > DigitVal(b[1])
       \/ (a[1] = b[1] /\ DigitsAbove(Tail(a), Tail(b)))
StoiOutOfRange(ds, neg) ==
    LET d == StripZeros(ds)
        lim == IF neg THEN IntMinDigits ELSE IntMaxDigits
    IN  Len(d) > Len(lim) \/ (Len(d) = Len(lim) /\ DigitsAbove(d, lim))
Stoi(t) ==
    LET s == TrimLeft(t)
        neg == s # <<>> /\ s[1] = "-"
        body == IF s # <<>> /\ s[1] \in {"-", "+"} THEN Tail(s) ELSE s
        ds == DigitRun(body)
    IN  IF ds = <<>> \/ StoiOutOfRange(ds, neg) THEN [ok |-> FALSE, val |-> 0]
        ELSE [ok |-> TRUE, val |-> IF neg THEN 0 - DecValue(ds) ELSE DecValue(ds)]

\* parse_uint_array: [ret |-> the bool it returns, out |-> what it left in out]
RECURSIVE ParseLoop(_, _, _, _)
ParseLoop(t, i, num, out) ==
    IF i > Len(t) THEN [ret |-> TRUE, out |-> out]
    ELSE LET c == t[i] IN
         IF IsDigit(c) THEN ParseLoop(t, i + 1, num \o <<c>>, out)
         ELSE IF c \in {",", "]"} THEN
              LET out2 == IF num # <<>> THEN Append(out, DecValue(num)) ELSE out
              IN  IF c = "]" THEN [ret |-> TRUE, out |-> out2]
                  ELSE ParseLoop(t, i + 1, <<>>, out2)
         ELSE IF c \in {" ", "\t"} THEN ParseLoop(t, i + 1, num, out)
         ELSE [ret |-> FALSE, out |-> out]
RECURSIVE SkipBlanks(_, _)
SkipBlanks(t, i) == IF i <= Len(t) /\ t[i] \in {" ", "\t"} THEN SkipBlanks(t, i + 1) ELSE i
ParseUintArray(t) ==
    IF t = <<>> THEN [ret |-> FALSE, out |-> <<>>]
    ELSE LET i == SkipBlanks(t, 1) IN
         IF i > Len(t) \/ t[i] # "[" THEN [ret |-> FALSE, out |-> <<>>]
         ELSE ParseLoop(t, i + 1, <<>>, <<>>)

\* op.front() == '"' && op.back() == '"'  =>  op.substr(1, op.size() - 2)
Unquote(op) ==
    IF op # <<>> /\ op[1] = Q /\ op[Len(op)] = Q
    THEN (IF Len(op) >= 2 THEN SubSeq(op, 2, Len(op) - 1) ELSE <<>>)
    ELSE op

\* ------------------------------------------------------------------------
\* main.cpp: the lines the environment may write to the engine's stdin
\* ------------------------------------------------------------------------
Keys == {"id", "op", "shm_verts", "shm_edges", "vert_counts", "edge_counts"}
NoFields == [k \in Keys |-> None]
NoLine == [kind |-> "none", fields |-> NoFields]
EmptyLine == [kind |-> "empty", fields |-> NoFields]
QuitLine == [kind |-> "quit", fields |-> NoFields]     \* the line "__quit__"

IdTexts ==
    { <<"7">>, <<" ", "4", "2">>, <<"7", "}">>, <<Q, "7", Q>>, <<>>,
      <<"3", "0", "0", "0", "0", "0", "0", "0", "0", "0">> }
OpTexts ==
    { <<Q, "prepare", Q>>, <<"prepare">>, <<Q, "prepare", Q, "}">>, <<Q, "ping", Q>> }
ShmVertsTexts == { <<"segV">>, <<"nope">> }
ShmEdgesTexts == { <<"segE">>, <<"segV">> }
CountTexts ==
    { <<>>,
      <<"[", "]">>,
      <<"[", "0", "]">>,
      <<"[", "1", "]">>,
      <<"[", "2", ",", "1", "]">>,
      <<"[", "1", ",", "1", ",", "1", "]">>,
      <<"[", "1", "]", "}">>,
      <<"x">>,
      <<"[", "1", ",", "x", "]">>,
      <<"[", "2", ",", "1">>,
      <<"[", "1", " ", "2", "]">> }
Opt(S) == {None} \cup {Some(t) : t \in S}
RequestLines ==
    { [kind |-> "req",
       fields |-> [k \in Keys |->
           CASE k = "id" -> i [] k = "op" -> o [] k = "shm_verts" -> sv
             [] k = "shm_edges" -> se [] k = "vert_counts" -> vc [] k = "edge_counts" -> ec]] :
        i \in Opt(IdTexts), o \in Opt(OpTexts), sv \in Opt(ShmVertsTexts),
        se \in Opt(ShmEdgesTexts), vc \in Opt(CountTexts), ec \in Opt(CountTexts) }
Lines == {EmptyLine, QuitLine} \cup RequestLines

\* ------------------------------------------------------------------------
\* The shared memory regions the caller created: "segV" holds the array
\* "verts", "segE" holds the array "edges"; no region is named "nope".
\* Elements are opaque: vertex k of the flat buffer is the number k, edge k
\* the number 100 + k.
\* ------------------------------------------------------------------------
VertsFlat == [k \in 1..NumVertsInShm |-> k]
EdgesFlat == [k \in 1..NumEdgesInShm |-> 100 + k]
Garbage == 0 - 1                      \* what a read past the mapped array may yield
ShmExists(name) == name \in { <<"segV">>, <<"segE">> }
ShmFind(name, object) ==              \* managed_shared_memory::find<T>(object).first
    IF name = <<"segV">> /\ object = "verts" THEN Some(VertsFlat)
    ELSE IF name = <<"segE">> /\ object = "edges" THEN Some(EdgesFlat)
    ELSE None

ReadFlat(buf, idx) == IF idx \in 1..Len(buf) THEN buf[idx] ELSE Garbage
Slice(buf, off, cnt) == [k \in 1..cnt |-> ReadFlat(buf, off + k)]

\* ------------------------------------------------------------------------
\* engine.cpp: standardize_object_transform, with the geometry pipeline
\* (adjacency, wire mask, hull, bounding box) kept as an uninterpreted
\* function of the object's vertices and edges.
\* ------------------------------------------------------------------------
ZeroPose == [tag |-> "zero", verts |-> <<>>, edges |-> <<>>]
Pipeline(tag, verts, edges) == [tag |-> tag, verts |-> verts, edges |-> edges]

\* a variant that forgets the vertCount == 0 test
StandardizeGuard_NoVertTest(vertCount, edgeCount) == edgeCount = 0
StandardizeGuard(vertCount, edgeCount) == vertCount = 0 \/ edgeCount = 0

StandardizeObjectTransform(verts, edges, cur) ==
    IF StandardizeGuard(Len(verts), Len(edges)) THEN cur          \* return; outputs untouched
    ELSE IF Len(verts) = 1
         THEN [rot |-> ZeroPose, trans |-> Pipeline("at", <<verts[1]>>, <<>>)]
         ELSE [rot |-> Pipeline("rot", verts, edges),
               trans |-> Pipeline("trans", verts, edges)]

\* prepare_object_batch: one call of standardize_object_transform per object
\* over the flattened buffers, in input order, each writing its own slot.
RECURSIVE BatchLoop(_, _, _, _, _, _, _, _)
BatchLoop(i, voff, eoff, vertsFlat, edgesFlat, vc, ec, out) ==
    IF i > Len(vc) THEN out
    ELSE LET r == StandardizeObjectTransform(Slice(vertsFlat, voff, vc[i]),
                                             Slice(edgesFlat, eoff, ec[i]), out[i])
         IN  BatchLoop(i + 1, voff + vc[i], eoff + ec[i], vertsFlat, edgesFlat, vc, ec,
                       [out EXCEPT ![i] = r])
PrepareObjectBatch(vertsFlat, edgesFlat, vc, ec, out) ==
    BatchLoop(1, 0, 0, vertsFlat, edgesFlat, vc, ec, out)

\* An object whose slice is read and reaches past the mapped arrays: the
\* read is undefined behaviour.
ReadsPastBuffers(vc, ec) ==
    \E i \in 1..Len(vc) :
        /\ ~StandardizeGuard(vc[i], ec[i])
        /\ \/ SumSeq(SubSeq(vc, 1, i)) > NumVertsInShm
           \/ SumSeq(SubSeq(ec, 1, i)) > NumEdgesInShm

\* ------------------------------------------------------------------------
\* main.cpp: the body of the request loop
\* ------------------------------------------------------------------------
SPLATTER_HAVE_BOOST_IPC == TRUE       \* the build with shared memory support

ErrorResp(id, msg) ==                 \* respond_error
    [id |-> id, ok |-> FALSE, error |-> msg, rots |-> <<>>, trans |-> <<>>]
OkResp(id, rots, trans) ==
    [id |-> id, ok |-> TRUE, error |-> "", rots |-> rots, trans |-> trans]

\* What one pass through the loop body does: the lines it writes, whether it
\* opened shared memory and ran the pipeline, and how control leaves it:
\* "continue" (back to getline), "break" (out of the loop) or "terminate"
\* (the process dies: an exception nothing catches, or a fault).
Outcome(r, opened, ran, ctl) == [resp |-> r, opened |-> opened, ran |-> ran, ctl |-> ctl]
Reply(r) == Outcome(<<r>>, FALSE, FALSE, "continue")

\* the two loops that print outR / outT, element i at position i
RECURSIVE JoinLoop(_, _, _)
JoinLoop(arr, i, acc) ==
    IF i > Len(arr) THEN acc ELSE JoinLoop(arr, i + 1, Append(acc, arr[i]))
\* a variant that prints the rotations last to first
RotsJson_Reversed(out) ==
    JoinLoop([i \in 1..Len(out) |-> out[Len(out) + 1 - i].rot], 1, <<>>)
RotsJson(out) == JoinLoop([i \in 1..Len(out) |-> out[i].rot], 1, <<>>)
TransJson(out) == JoinLoop([i \in 1..Len(out) |-> out[i].trans], 1, <<>>)

\* a variant without the early answer for an empty batch
IsEmptyBatch_Never(num_objects) == FALSE
\* if (num_objects == 0) ... continue;
IsEmptyBatch(num_objects) == num_objects = 0

\* the #if SPLATTER_HAVE_BOOST_IPC block; ub is the outcome of the undefined
\* read when the counts reach past the mapped arrays
RunBatch(id, shm_verts, shm_edges, vertCounts, edgeCounts, ub) ==
    IF ~SPLATTER_HAVE_BOOST_IPC
    THEN Reply(ErrorResp(id, "Boost.Interprocess not available"))
    ELSE IF ~ShmExists(shm_verts)     \* open_only throws interprocess_exception
    THEN Outcome(<<ErrorResp(id, "interprocess_exception")>>, FALSE, FALSE, "continue")
    ELSE IF ~ShmExists(shm_edges)
    THEN Outcome(<<ErrorResp(id, "interprocess_exception")>>, TRUE, FALSE, "continue")
    ELSE LET verts_ptr == ShmFind(shm_verts, "verts")
             edges_ptr == ShmFind(shm_edges, "edges")
         IN  IF ~verts_ptr.has \/ ~edges_ptr.has
             THEN Outcome(<<ErrorResp(id, "shared memory data not found")>>,
                          TRUE, FALSE, "continue")
             ELSE IF ub = "segv" THEN Outcome(<<>>, TRUE, TRUE, "terminate")
             ELSE LET zero == [i \in 1..Len(vertCounts) |->
                                  [rot |-> ZeroPose, trans |-> ZeroPose]]
                      out == PrepareObjectBatch(verts_ptr.val, edges_ptr.val,
                                                vertCounts, edgeCounts, zero)
                  IN  Outcome(<<OkResp(id, RotsJson(out), TransJson(out))>>,
                              TRUE, TRUE, "continue")

\* op == "prepare"
Prepare(l, id, ub) ==
    LET sv == GetValue(l, "shm_verts")
        se == GetValue(l, "shm_edges")
        vcv == GetValue(l, "vert_counts")
        ecv == GetValue(l, "edge_counts")
    IN  IF ~sv.has THEN Reply(ErrorResp(id, "missing shm_verts"))
        ELSE IF ~se.has THEN Reply(ErrorResp(id, "missing shm_edges"))
        ELSE IF ~vcv.has THEN Reply(ErrorResp(id, "missing vert_counts"))
        ELSE IF ~ecv.has THEN Reply(ErrorResp(id, "missing edge_counts"))
        ELSE LET vertCounts == ParseUintArray(vcv.val).out   \* the bool is dropped
                 edgeCounts == ParseUintArray(ecv.val).out
                 num_objects == Len(vertCounts)
             IN  IF IsEmptyBatch(num_objects) THEN Reply(OkResp(id, <<>>, <<>>))
                 ELSE IF Len(edgeCounts) # num_objects
                 THEN Reply(ErrorResp(id, "edge_counts size mismatch"))
                 ELSE RunBatch(id, sv.val, se.val, vertCounts, edgeCounts, ub)

\* int id = idVal ? std::stoi(*idVal) : -1;   (before the try block)
ParseId(l) ==
    LET idVal == GetValue(l, "id")
    IN  IF idVal.has THEN Stoi(idVal.val) ELSE [ok |-> TRUE, val |-> 0 - 1]

\* a variant that skips the quit line instead of leaving the loop
OnQuit_Continue == Outcome(<<>>, FALSE, FALSE, "continue")
\* if (line == "__quit__") break;
OnQuit == Outcome(<<>>, FALSE, FALSE, "break")

MainBody(l, ub) ==
    IF l.kind = "empty" THEN Outcome(<<>>, FALSE, FALSE, "continue")
    ELSE IF l.kind = "quit" THEN OnQuit
    ELSE LET idP == ParseId(l) IN
         IF ~idP.ok THEN Outcome(<<>>, FALSE, FALSE, "terminate")   \* stoi throws
         ELSE LET id == idP.val
                  opVal == GetValue(l, "op")
              IN  IF ~opVal.has THEN Reply(ErrorResp(id, "missing op"))
                  ELSE IF Unquote(opVal.val) = <<"prepare">> THEN Prepare(l, id, ub)
                  ELSE Reply(ErrorResp(id, "unknown op"))

\* The outcomes of the undefined behaviour a line can trigger.
UbChoices(l) ==
    LET vcv == GetValue(l, "vert_counts")
        ecv == GetValue(l, "edge_counts")
    IN  IF vcv.has /\ ecv.has
           /\ Len(ParseUintArray(vcv.val).out) = Len(ParseUintArray(ecv.val).out)
           /\ ReadsPastBuffers(ParseUintArray(vcv.val).out, ParseUintArray(ecv.val).out)
        THEN {"segv", "garbage"}
        ELSE {"none"}

\* ------------------------------------------------------------------------
\* main.cpp: the loop
\* ------------------------------------------------------------------------
IpcInit ==
    /\ pc = "read" /\ status = "running" /\ exitCode = 0 - 1
    /\ line = NoLine /\ resp = <<>> /\ nout = 0 /\ served = 0
    /\ shmOpened = FALSE /\ pipelineRan = FALSE

\* while (std::getline(std::cin, line))
ReadLine ==
    /\ pc = "read" /\ status = "running" /\ served < MaxLines
    /\ \E l \in Lines : line' = l
    /\ pc' = "handle" /\ served' = served + 1
    /\ UNCHANGED <<status, exitCode, nout, resp, shmOpened, pipelineRan>>
    /\ UNCHANGED <<wireVars, mbbVars, sliceVars, ufVars, adjVars, otherVars>>

\* getline fails at end of input: the loop ends, main returns 0
ReadEof ==
    /\ pc = "read" /\ status = "running"
    /\ status' = "exited" /\ exitCode' = 0
    /\ UNCHANGED <<pc, line, resp, nout, served, shmOpened, pipelineRan>>
    /\ UNCHANGED <<wireVars, mbbVars, sliceVars, ufVars, adjVars, otherVars>>

HandleLine ==
    /\ pc = "handle" /\ status = "running"
    /\ \E ub \in UbChoices(line) :
         LET o == MainBody(line, ub) IN
         /\ resp' = o.resp /\ nout' = nout + Len(o.resp)
         /\ shmOpened' = o.opened /\ pipelineRan' = o.ran
         /\ status' = CASE o.ctl = "continue" -> "running"
                        [] o.ctl = "break" -> "exited"
                        [] o.ctl = "terminate" -> "aborted"
         /\ exitCode' = IF o.ctl = "break" THEN 0 ELSE exitCode
    /\ pc' = "done"
    /\ UNCHANGED <<line, served>>
    /\ UNCHANGED <<wireVars, mbbVars, sliceVars, ufVars, adjVars, otherVars>>

\* continue / the end of the body: back to the loop condition
LoopBack ==
    /\ pc = "done" /\ status = "running"
    /\ pc' = "read" /\ line' = NoLine /\ resp' = <<>>
    /\ shmOpened' = FALSE /\ pipelineRan' = FALSE
    /\ UNCHANGED <<status, exitCode, nout, served>>
    /\ UNCHANGED <<wireVars, mbbVars, sliceVars, ufVars, adjVars, otherVars>>

\* values of the variables of the other components while one is checked
WireIdle ==
    /\ wpc = "off" /\ adj_verts = <<>> /\ linearity_scores = <<>> /\ is_wire = <<>>
    /\ init_wire = <<>> /\ group_visited = <<>> /\ boundary_indices = <<>>
    /\ queue = <<>> /\ promoted = <<>> /\ wi = 0
MbbIdle ==
    /\ mpc = "off" /\ variant = "none" /\ hull = <<>> /\ angles = <<>> /\ mk = 0
    /\ best_box = <<>> /\ best_idx = 0 /\ out_rot = <<>>

Init == IpcInit /\ WireIdle /\ MbbIdle /\ SliceIdle /\ UfIdle /\ AdjIdle /\ OtherIdle
Next == ReadLine \/ ReadEof \/ HandleLine \/ LoopBack
Spec == Init /\ [][Next]_vars

\* ------------------------------------------------------------------------
\* Vocabulary of the claims about the request loop
\* ------------------------------------------------------------------------
Field(k) == line.fields[k]
FieldText(k) == TrimRight(TrimLeft(Field(k).val))

\* the request names the op "prepare"
PrepareRequest == line.kind = "req" /\ Field("op") = Some(<<Q, "prepare", Q>>)
\* the id is absent or an integer literal that fits an int
RECURSIVE AllDigits(_)
AllDigits(t) == t = <<>> \/ (IsDigit(t[1]) /\ AllDigits(Tail(t)))
NumericId ==
    \/ ~Field("id").has
    \/ /\ FieldText("id") # <<>> /\ AllDigits(FieldText("id"))
       /\ ~StoiOutOfRange(FieldText("id"), FALSE)
\* the id is absent or a run of digits, of whatever length
DigitsId == ~Field("id").has \/ (FieldText("id") # <<>> /\ AllDigits(FieldText("id")))
RequestId == IF Field("id").has THEN DecValue(FieldText("id")) ELSE 0 - 1
AllRequired ==
    \A k \in {"shm_verts", "shm_edges", "vert_counts", "edge_counts"} : Field(k).has

\* A bracketed list of unsigned integers: "[" ( uint ( "," uint )* )? "]".  The
\* closing brace of the request follows the value of its last field.
RECURSIVE UintList(_, _, _)
UintList(t, i, inNum) ==
    IF i > Len(t) THEN inNum
    ELSE IF IsDigit(t[i]) THEN UintList(t, i + 1, TRUE)
    ELSE IF t[i] = "," THEN inNum /\ UintList(t, i + 1, FALSE)
    ELSE FALSE
ArrayBody(t) == IF t # <<>> /\ t[Len(t)] = "}" THEN SubSeq(t, 1, Len(t) - 1) ELSE t
WellFormedArray(t) ==
    LET u == ArrayBody(t) IN
    /\ Len(u) >= 2 /\ u[1] = "[" /\ u[Len(u)] = "]"
    /\ (Len(u) = 2 \/ UintList(SubSeq(u, 2, Len(u) - 1), 1, FALSE))
ArrayLen(t) ==
    LET u == ArrayBody(t) IN
    IF Len(u) <= 2 THEN 0 ELSE 1 + Cardinality({i \in 1..Len(u) : u[i] = ","})

\* the first required field the request lacks
MissingField ==
    IF ~Field("op").has THEN "op"
    ELSE IF ~PrepareRequest THEN "none"
    ELSE IF ~Field("shm_verts").has THEN "shm_verts"
    ELSE IF ~Field("shm_edges").has THEN "shm_edges"
    ELSE IF ~Field("vert_counts").has THEN "vert_counts"
    ELSE IF ~Field("edge_counts").has THEN "edge_counts"
    ELSE "none"
MissingMessage(k) ==
    CASE k = "op" -> "missing op" [] k = "shm_verts" -> "missing shm_verts"
      [] k = "shm_edges" -> "missing shm_edges" [] k = "vert_counts" -> "missing vert_counts"
      [] k = "edge_counts" -> "missing edge_counts"

\* C1: no line other than the quit token ends the loop: after the body has run
\* for it the loop is still running, and a request got its one response.
\* (Stated for the lines that trigger no undefined read.)
C1_NoRequestEndsLoop ==
    (pc = "done" /\ line.kind # "quit" /\ UbChoices(line) = {"none"})
        => (status = "running" /\ (line.kind = "req" => Len(resp) = 1))

\* C2: a prepare request whose vert_counts or edge_counts is not a bracketed
\* list of unsigned integers gets an error response and the pipeline does
\* not run.
C2_MalformedCountsAreErrors ==
    (pc = "done" /\ PrepareRequest /\ NumericId /\ AllRequired
       /\ (~WellFormedArray(FieldText("vert_counts"))
            \/ ~WellFormedArray(FieldText("edge_counts"))))
        => (Len(resp) = 1 /\ ~resp[1].ok /\ ~pipelineRan)

\* C3: a prepare request whose two count arrays have different lengths gets
\* an error response, whatever the two lengths are.
C3_LengthMismatchIsError ==
    (pc = "done" /\ PrepareRequest /\ NumericId /\ AllRequired
       /\ WellFormedArray(FieldText("vert_counts"))
       /\ WellFormedArray(FieldText("edge_counts"))
       /\ ArrayLen(FieldText("vert_counts")) # ArrayLen(FieldText("edge_counts")))
        => (Len(resp) = 1 /\ ~resp[1].ok)

\* C4: a request without op, and a prepare request without one of its four
\* required fields, gets exactly one error response that names the missing
\* field; no shared memory is opened and the pipeline does not run.
C4_MissingFieldIsNamed ==
    (pc = "done" /\ line.kind = "req" /\ MissingField # "none")
        => (/\ Len(resp) = 1 /\ ~resp[1].ok
            /\ resp[1].error = MissingMessage(MissingField)
            /\ ~shmOpened /\ ~pipelineRan)

\* C5: a well-formed prepare request with empty vert_counts and edge_counts
\* gets the success response with empty rots and trans at once: no shared
\* memory region is opened and the pipeline does not run.
EmptyBatchRequest ==
    /\ PrepareRequest /\ NumericId /\ AllRequired
    /\ WellFormedArray(FieldText("vert_counts")) /\ ArrayLen(FieldText("vert_counts")) = 0
    /\ WellFormedArray(FieldText("edge_counts")) /\ ArrayLen(FieldText("edge_counts")) = 0
C5_EmptyBatchSucceedsAtOnce ==
    (pc = "done" /\ EmptyBatchRequest)
        => (/\ resp = <<OkResp(RequestId, <<>>, <<>>)>>
            /\ ~shmOpened /\ ~pipelineRan /\ status = "running")
C5_Witness ==
    pc = "done" /\ EmptyBatchRequest /\ Field("shm_verts") = Some(<<"nope">>)
      /\ Len(resp) = 1 /\ resp[1].ok

\* C6: once the quit token is read the loop ends and main returns 0; nothing
\* is written for the quit line, and nothing at all happens afterwards.
C6_QuitEndsLoop ==
    [][/\ (pc = "handle" /\ line.kind = "quit")
            => (status' = "exited" /\ exitCode' = 0 /\ nout' = nout /\ resp' = <<>>)
       /\ status # "exited"]_vars
C6_Witness ==
    status = "exited" /\ exitCode = 0 /\ line.kind = "quit" /\ served = 2 /\ nout = 1

\* C7: a success response to a prepare request with N objects holds N
\* rotations and N translations, the i-th being the result for the i-th
\* object's own vertices and edges of the flat buffers.
ObjectResult(vc, ec, i) ==
    StandardizeObjectTransform(
        Slice(VertsFlat, SumSeq(SubSeq(vc, 1, i - 1)), vc[i]),
        Slice(EdgesFlat, SumSeq(SubSeq(ec, 1, i - 1)), ec[i]),
        [rot |-> ZeroPose, trans |-> ZeroPose])
C7_OutputOrderIsInputOrder ==
    (pc = "done" /\ PrepareRequest /\ Len(resp) = 1 /\ resp[1].ok) =>
        LET vc == ParseUintArray(FieldText("vert_counts")).out
            ec == ParseUintArray(FieldText("edge_counts")).out
        IN  /\ Len(resp[1].rots) = Len(vc) /\ Len(resp[1].trans) = Len(vc)
            /\ \A i \in 1..Len(vc) :
                 /\ resp[1].rots[i] = ObjectResult(vc, ec, i).rot
                 /\ resp[1].trans[i] = ObjectResult(vc, ec, i).trans
C7_Witness ==
    /\ pc = "done" /\ PrepareRequest /\ Len(resp) = 1 /\ resp[1].ok
    /\ Len(resp[1].rots) = 2 /\ resp[1].rots[1] # resp[1].rots[2]
    /\ resp[1].trans[1] # resp[1].trans[2]

\* C8: a well-formed prepare request for one object with zero vertices
\* (vert_counts=[0], one edge count, both regions present) gets ok:true with
\* the zero rotation and the zero translation.
ZeroVertexRequest ==
    /\ PrepareRequest /\ NumericId /\ AllRequired
    /\ ArrayBody(FieldText("vert_counts")) = <<"[", "0", "]">>
    /\ WellFormedArray(FieldText("edge_counts")) /\ ArrayLen(FieldText("edge_counts")) = 1
    /\ Field("shm_verts") = Some(<<"segV">>) /\ Field("shm_edges") = Some(<<"segE">>)
C8_ZeroVerticesIsSuccess ==
    (pc = "done" /\ ZeroVertexRequest)
        => resp = <<OkResp(RequestId, <<ZeroPose>>, <<ZeroPose>>)>>
C8_Witness ==
    pc = "done" /\ ZeroVertexRequest /\ ArrayBody(FieldText("edge_counts")) = <<"[", "1", "]">>
      /\ Len(resp) = 1 /\ resp[1].ok /\ pipelineRan

\* ------------------------------------------------------------------------
\* bounds.cpp: elim_wires, from the linearity scores on.  Vertex ids are
\* 1..vertCount here (0..vertCount-1 in the code).  Scores are floats in the
\* code; here they are integers, the float's value times 10^9, so that the
\* float threshold 0.9f and the double literal 0.1 keep their exact order
\* with the float scores.
\* ------------------------------------------------------------------------
LINEARITY_THRESHOLD == 899999976      \* 0.9f
REGROW_THRESHOLD == 100000000         \* 0.1 (a double literal)
MIN_WIRE_GROUP_SIZE == 10

ChainLen == 9        \* length of the chain of wire-like vertices of a mesh
RestVerts == 3       \* number of freely connected, freely scored vertices

\* the scores a vertex may have: 0.05f, 0.1f (the float nearest to 0.1, just
\* above the double 0.1), 0.5f and 0.95f
ScoreValues == {50000000, 100000001, 500000000, 950000000}
\* the score of the vertices of the chain: above LINEARITY_THRESHOLD
ChainScore == CHOOSE x \in ScoreValues : \A y \in ScoreValues : y <= x

\* std::sort of a neighbor list
RECURSIVE InsertSorted(_, _)
InsertSorted(x, t) ==
    IF t = <<>> THEN <<x>>
    ELSE IF x <= Head(t) THEN <<x>> \o t
    ELSE <<Head(t)>> \o InsertSorted(x, Tail(t))
RECURSIVE StdSort(_)
StdSort(t) == IF t = <<>> THEN <<>> ELSE InsertSorted(Head(t), StdSort(Tail(t)))

\* erase(std::unique(...)): of every run of equal elements the first is kept
RECURSIVE UniqueLoop(_, _)
UniqueLoop(t, acc) ==
    IF t = <<>> THEN acc
    ELSE IF acc # <<>> /\ acc[Len(acc)] = Head(t) THEN UniqueLoop(Tail(t), acc)
    ELSE UniqueLoop(Tail(t), Append(acc, Head(t)))
\* a variant that forgets to erase the duplicates
UniqueSeq_Keep(t) == t
UniqueSeq(t) == UniqueLoop(t, <<>>)

\* push_back into the list of vertex x, when x is a list of the vector
PushBack(adj, x, y) == IF x \in DOMAIN adj THEN [adj EXCEPT ![x] = Append(@, y)] ELSE adj

\* engine.cpp build_adj_vertices: both directions of every edge are pushed,
\* then every list is sorted and deduplicated
RECURSIVE PushEdges(_, _, _)
PushEdges(edges, i, adj) ==
    IF i > Len(edges) THEN adj
    ELSE LET x == edges[i][1]
             y == edges[i][2]
         IN  PushEdges(edges, i + 1, PushBack(PushBack(adj, x, y), y, x))
SortUniqueAll(adj) == [v \in DOMAIN adj |-> UniqueSeq(StdSort(adj[v]))]
BuildAdjVertices(edges, vertCount) ==
    SortUniqueAll(PushEdges(edges, 1, [v \in 1..vertCount |-> <<>>]))

\* The meshes: RestVerts vertices, each joined or not to the next and the
\* last to the first (and an optional self-loop), with any scores; optionally a chain of ChainLen
\* vertices with a high score whose end is joined to the first of them, the
\* chain holding the lower or the higher ids; and the empty mesh.
RECURSIVE SeqOfSet(_)
SeqOfSet(S) ==
    IF S = {} THEN <<>> ELSE LET x == CHOOSE y \in S : TRUE IN <<x>> \o SeqOfSet(S \ {x})
RestPairs(base) ==
    {<<base + k, base + k + 1>> : k \in 1..(RestVerts - 1)}
        \cup {<<base + 1, base + RestVerts>>}
Mesh(chain, restEdges, selfLoop, restScores) ==
    LET base == IF chain = "first" THEN ChainLen ELSE 0
        coff == IF chain = "last" THEN RestVerts ELSE 0
        n == RestVerts + (IF chain = "none" THEN 0 ELSE ChainLen)
        chainEdges == IF chain = "none" THEN <<>>
                      ELSE [k \in 1..ChainLen |->
                               IF k < ChainLen THEN <<coff + k, coff + k + 1>>
                               ELSE <<coff + ChainLen, base + 1>>]
        edges == chainEdges \o SeqOfSet(restEdges)
                 \o (IF selfLoop THEN <<<<base + RestVerts, base + RestVerts>>>> ELSE <<>>)
    IN  [adj |-> BuildAdjVertices(edges, n),
         scores |-> [v \in 1..n |->
                        IF v \in (base + 1)..(base + RestVerts)
                        THEN restScores[v - base] ELSE ChainScore]]
Meshes ==
    { Mesh(c, re, sl, rs) :
        c \in {"none", "last"}, sl \in BOOLEAN, rs \in [1..RestVerts -> ScoreValues],
        re \in SUBSET RestPairs(0) }
    \cup
    { Mesh("first", re, sl, rs) :
        sl \in BOOLEAN, rs \in [1..RestVerts -> ScoreValues],
        re \in SUBSET RestPairs(ChainLen) }
    \cup { [adj |-> <<>>, scores |-> <<>>] }

vertCount == Len(adj_verts)
Verts == 1..vertCount
Neighbors(v) == Range(adj_verts[v])

\* the flood fill of one group (the while loop over the local queue): what
\* it leaves in group, current_bounds and group_visited
RECURSIVE ScanNeighbors(_, _, _, _, _)
ScanNeighbors(nbrs, k, q, bounds, visited) ==
    IF k > Len(nbrs) THEN [q |-> q, bounds |-> bounds, visited |-> visited]
    ELSE LET nb == nbrs[k] IN
         IF is_wire[nb] /\ ~visited[nb]
         THEN ScanNeighbors(nbrs, k + 1, Append(q, nb), bounds, [visited EXCEPT ![nb] = TRUE])
         ELSE IF ~is_wire[nb] /\ nb \notin Range(bounds)
         THEN ScanNeighbors(nbrs, k + 1, q, Append(bounds, nb), visited)
         ELSE ScanNeighbors(nbrs, k + 1, q, bounds, visited)
\* (the result r of one scan is bound once, as an element of a singleton)
TheOne(S) == CHOOSE x \in S : TRUE
RECURSIVE FloodLoop(_, _, _, _)
FloodLoop(q, group, bounds, visited) ==
    IF q = <<>> THEN [group |-> group, bounds |-> bounds, visited |-> visited]
    ELSE LET idx == Head(q)
         IN  TheOne({FloodLoop(r.q, Append(group, idx), r.bounds, r.visited) :
                       r \in {ScanNeighbors(adj_verts[idx], 1, Tail(q), bounds, visited)}})
FloodGroup(i) == FloodLoop(<<i>>, <<>>, <<>>, [group_visited EXCEPT ![i] = TRUE])

\* a variant that reverts a small group even when it is a whole island
RevertGroup_IgnoreBounds(size, nbounds) == size < MIN_WIRE_GROUP_SIZE
\* a variant with the size test off by one
RevertGroup_OffByOne(size, nbounds) == size < MIN_WIRE_GROUP_SIZE - 1 /\ nbounds # 0
\* if (group.size() < 10 && !current_bounds.empty())
RevertGroup(size, nbounds) == size < MIN_WIRE_GROUP_SIZE /\ nbounds # 0

WireInit ==
    /\ wpc = "start"
    /\ \E m \in Meshes : adj_verts = m.adj /\ linearity_scores = m.scores
    /\ is_wire = [v \in 1..Len(adj_verts) |-> FALSE]
    /\ init_wire = [v \in 1..Len(adj_verts) |-> FALSE]
    /\ group_visited = [v \in 1..Len(adj_verts) |-> FALSE]
    /\ promoted = [v \in 1..Len(adj_verts) |-> 0]
    /\ boundary_indices = <<>> /\ queue = <<>> /\ wi = 1

\* if (!verts || vertCount == 0) return std::vector<bool>(vertCount, false);
EmptyReturn ==
    /\ wpc = "start" /\ vertCount = 0
    /\ wpc' = "done"
    /\ UNCHANGED <<adj_verts, linearity_scores, is_wire, init_wire, group_visited,
                   boundary_indices, queue, promoted, wi>>
    /\ UNCHANGED <<ipcVars, mbbVars, sliceVars, ufVars, adjVars, otherVars>>

\* is_wire[i] = (linearity_scores[i] > LINEARITY_THRESHOLD)
MarkWire ==
    /\ wpc = "start" /\ vertCount > 0
    /\ is_wire' = [v \in Verts |-> linearity_scores[v] > LINEARITY_THRESHOLD]
    /\ init_wire' = is_wire'
    /\ wpc' = "groups"
    /\ UNCHANGED <<adj_verts, linearity_scores, group_visited, boundary_indices,
                   queue, promoted, wi>>
    /\ UNCHANGED <<ipcVars, mbbVars, sliceVars, ufVars, adjVars, otherVars>>

UnvisitedWire(i) == is_wire[i] /\ ~group_visited[i]

\* the iterations of the for loop up to and including the next one that
\* finds an unvisited wire vertex: its group is flooded, then reverted or
\* its bounds recorded
GroupPass ==
    /\ wpc = "groups"
    /\ \E i \in wi..vertCount :
         /\ UnvisitedWire(i)
         /\ \A j \in wi..(i - 1) : ~UnvisitedWire(j)
         /\ LET f == FloodGroup(i) IN
            /\ group_visited' = f.visited
            /\ IF RevertGroup(Len(f.group), Len(f.bounds))
               THEN /\ is_wire' = [v \in Verts |->
                                      IF v \in Range(f.group) THEN FALSE ELSE is_wire[v]]
                    /\ boundary_indices' = boundary_indices
               ELSE /\ is_wire' = is_wire
                    /\ boundary_indices' = boundary_indices \o f.bounds
         /\ wi' = i + 1
    /\ UNCHANGED <<wpc, adj_verts, linearity_scores, init_wire, queue, promoted>>
    /\ UNCHANGED <<ipcVars, mbbVars, sliceVars, ufVars, adjVars, otherVars>>

\* the for loop ends; every recorded boundary vertex is queued
StartRegrow ==
    /\ wpc = "groups"
    /\ \A j \in wi..vertCount : ~UnvisitedWire(j)
    /\ queue' = boundary_indices
    /\ wpc' = "regrow" /\ wi' = vertCount + 1
    /\ UNCHANGED <<adj_verts, linearity_scores, is_wire, init_wire, group_visited,
                   boundary_indices, promoted>>
    /\ UNCHANGED <<ipcVars, mbbVars, sliceVars, ufVars, adjVars, otherVars>>

\* a variant that promotes whatever the score
Promotes_NoThreshold(score, wire) == ~wire
\* a variant that promotes a vertex that is wire already
Promotes_EvenWire(score, wire) == score > REGROW_THRESHOLD
\* if (linearity_scores[current] > 0.1 && !is_wire[current])
Promotes(score, wire) == score > REGROW_THRESHOLD /\ ~wire

\* one iteration of while (!queue.empty())
RegrowStep ==
    /\ wpc = "regrow" /\ queue # <<>>
    /\ LET current == Head(queue) IN
       IF Promotes(linearity_scores[current], is_wire[current])
       THEN LET w2 == [is_wire EXCEPT ![current] = TRUE] IN
            /\ is_wire' = w2
            /\ promoted' = [promoted EXCEPT ![current] = @ + 1]
            /\ queue' = Tail(queue) \o
                   SelectSeq(adj_verts[current], LAMBDA nb : ~w2[nb])
       ELSE /\ queue' = Tail(queue)
            /\ UNCHANGED <<is_wire, promoted>>
    /\ UNCHANGED <<wpc, adj_verts, linearity_scores, init_wire, group_visited,
                   boundary_indices, wi>>
    /\ UNCHANGED <<ipcVars, mbbVars, sliceVars, ufVars, adjVars, otherVars>>

\* return is_wire;
WireReturn ==
    /\ wpc = "regrow" /\ queue = <<>>
    /\ wpc' = "done"
    /\ UNCHANGED <<adj_verts, linearity_scores, is_wire, init_wire, group_visited,
                   boundary_indices, queue, promoted, wi>>
    /\ UNCHANGED <<ipcVars, mbbVars, sliceVars, ufVars, adjVars, otherVars>>

IpcIdle ==
    /\ pc = "off" /\ status = "off" /\ exitCode = 0 - 1 /\ line = NoLine /\ resp = <<>>
    /\ nout = 0 /\ served = 0 /\ shmOpened = FALSE /\ pipelineRan = FALSE

InitWire == WireInit /\ IpcIdle /\ MbbIdle /\ SliceIdle /\ UfIdle /\ AdjIdle /\ OtherIdle
NextWire ==
    EmptyReturn \/ MarkWire \/ GroupPass \/ StartRegrow \/ RegrowStep \/ WireReturn
SpecWire == InitWire /\ [][NextWire]_vars

\* ------------------------------------------------------------------------
\* Vocabulary of the claims about the wire detector
\* ------------------------------------------------------------------------
\* the vertices reachable from the set S along mesh edges through vertices
\* of the set Ok
RECURSIVE Reach(_, _, _)
Reach(frontier, seen, Ok) ==
    IF frontier = {} THEN seen
    ELSE LET new == ((UNION {Neighbors(v) : v \in frontier}) \cap Ok) \ seen
         IN  Reach(new, seen \cup new, Ok)
Closure(S, Ok) == Reach(S, S, Ok)

InitWireSet == {v \in Verts : init_wire[v]}
\* the initially wire-marked connected component of the wire-marked vertex v
WireComponent(v) == Closure({v}, InitWireSet)
\* its adjacent non-wire vertices
ComponentBounds(C) == {u \in Verts : ~init_wire[u] /\ \E v \in C : u \in Neighbors(v)}
\* v lies in an initially wire-marked component of fewer than 10 members
\* that has an adjacent non-wire vertex
InSmallBoundedComponent(v) ==
    /\ init_wire[v]
    /\ Cardinality(WireComponent(v)) < 10
    /\ ComponentBounds(WireComponent(v)) # {}
\* v is structural when the component pass ends and has a score above the
\* regrowth threshold
Regrowable(v) ==
    /\ linearity_scores[v] > REGROW_THRESHOLD
    /\ (~init_wire[v] \/ InSmallBoundedComponent(v))
\* v is joined to a recorded boundary vertex by a path of such vertices
ReachedByRegrowth(v) ==
    LET R == {u \in Verts : Regrowable(u)}
    IN  v \in Closure(Range(boundary_indices) \cap R, R)

\* C9 as claimed: in the final mask every vertex of a small component with a
\* non-wire boundary is structural.
C9_SmallGroupsStructural ==
    wpc = "done" => \A v \in Verts : InSmallBoundedComponent(v) => ~is_wire[v]

\* C9 as amended: every such vertex is structural when the component pass
\* ends, and in the final mask it is wire exactly when boundary regrowth
\* reached it from a recorded boundary vertex of a kept component.
C9_SmallGroupsStructuralUnlessRegrown ==
    /\ (wpc = "regrow" /\ queue = boundary_indices /\ \A u \in Verts : promoted[u] = 0)
          => \A v \in Verts : InSmallBoundedComponent(v) => ~is_wire[v]
    /\ wpc = "done"
          => \A v \in Verts : InSmallBoundedComponent(v) =>
                 (is_wire[v] <=> ReachedByRegrowth(v))
C9_Witness ==
    /\ wpc = "done" /\ boundary_indices # <<>>
    /\ \E v \in Verts : InSmallBoundedComponent(v) /\ ~is_wire[v]

\* ------------------------------------------------------------------------
\* The minimum-bounding-box search: calc_rot_to_forward (engine.cpp) and the
\* tail of align_min_bounds (bounds.cpp)
\*
\* Points have integer coordinates.  An angle is kept as the direction
\* <<c, s>> it points to (c : s = cos : sin, in lowest terms), so that atan2,
\* negation, and rotation are exact; a rotated point set carries the squared
\* length n = c*c + s*s of the direction used, and its coordinates are the
\* true ones times sqrt(n).  Areas are the rationals num/den; the two
\* sentinels are values of their own, larger than every area of the model.
\* ------------------------------------------------------------------------
GridMax == 2
MaxHull == 4

Abs(x) == IF x < 0 THEN 0 - x ELSE x

RECURSIVE Gcd(_, _)
Gcd(a, b) == IF b = 0 THEN a ELSE Gcd(b, a % b)

Infinity == [kind |-> "inf"]
FltMax == [kind |-> "max"]
Finite(num, den) == [kind |-> "fin", num |-> num, den |-> den]

\* operator< of float on areas
AreaLess(a, b) ==
    IF a.kind = "fin"
    THEN IF b.kind = "fin" THEN a.num * b.den < b.num * a.den ELSE TRUE
    ELSE a.kind = "max" /\ b.kind = "inf"

AreaLessEq(a, b) == ~AreaLess(b, a)

\* std::atan2(y, x) for a vector that is not zero
Atan2(y, x) ==
    LET g == Gcd(Abs(x), Abs(y)) IN <<x \div g, y \div g>>

ZeroAngle == <<1, 0>>
\* -angle ; -pi and pi are one direction
Neg(angle) == IF angle[2] = 0 THEN angle ELSE <<angle[1], 0 - angle[2]>>

\* BoundingBox2D() of geo2d.h
DefaultBox == [area |-> FltMax, rotation_angle |-> ZeroAngle]

RotatePoints2D(points, angle) ==
    [pts |-> [i \in 1..Len(points) |->
                <<points[i][1] * angle[1] - points[i][2] * angle[2],
                  points[i][1] * angle[2] + points[i][2] * angle[1]>>],
     n   |-> angle[1] * angle[1] + angle[2] * angle[2]]

MinOf(S) == CHOOSE x \in S : \A y \in S : x <= y
MaxOf(S) == CHOOSE x \in S : \A y \in S : y <= x

ComputeAabb2D(rot, rotation_angle) ==
    IF Len(rot.pts) = 0 THEN DefaultBox
    ELSE LET xs == {rot.pts[i][1] : i \in 1..Len(rot.pts)}
             ys == {rot.pts[i][2] : i \in 1..Len(rot.pts)}
         IN  [area |-> Finite((MaxOf(xs) - MinOf(xs)) * (MaxOf(ys) - MinOf(ys)), rot.n),
              rotation_angle |-> rotation_angle]

\* length_squared() > 1e-8f on integer coordinates
NotDegenerateEdge(edge) == edge[1] * edge[1] + edge[2] * edge[2] > 0

RECURSIVE EdgeAnglesLoop(_, _, _)
EdgeAnglesLoop(h, i, acc) ==
    IF i > Len(h) THEN acc
    ELSE LET next == (i % Len(h)) + 1
             edge == <<h[next][1] - h[i][1], h[next][2] - h[i][2]>>
         IN  EdgeAnglesLoop(h, i + 1,
                 IF NotDegenerateEdge(edge)
                 THEN Append(acc, Atan2(edge[2], edge[1]))
                 ELSE acc)

GetEdgeAngles2D(h) == EdgeAnglesLoop(h, 1, <<>>)

\* the box the loop body computes for one angle
CandidateBox(h, angle) == ComputeAabb2D(RotatePoints2D(h, Neg(angle)), Neg(angle))

Sentinel(v) ==
    IF v = "calc_rot_to_forward"
    THEN [area |-> Infinity, rotation_angle |-> ZeroAngle]
    ELSE DefaultBox

Replaces_OrEqual(box, best) == AreaLessEq(box.area, best.area)

\* if (box.area < best_box.area)
Replaces(box, best) == AreaLess(box.area, best.area)

\* The hulls handed to the search: what a planar hull construction returns,
\* a counter-clockwise strictly convex polygon without duplicates, or the
\* distinct points themselves when there are fewer than three.
GridPoints == (0..GridMax) \X (0..GridMax)

Cross(o, a, b) == (a[1] - o[1]) * (b[2] - o[2]) - (a[2] - o[2]) * (b[1] - o[1])

Succ(i, n) == (i % n) + 1

IsHull(h) ==
    LET n == Len(h) IN
    /\ \A i, j \in 1..n : i # j => h[i] # h[j]
    /\ n >= 3 =>
         /\ \A i \in 1..n : Cross(h[i], h[Succ(i, n)], h[Succ(Succ(i, n), n)]) > 0
         /\ \A i, k \in 1..n : Cross(h[i], h[Succ(i, n)], h[k]) >= 0

Hulls == UNION {{h \in [1..n -> GridPoints] : IsHull(h)} : n \in 0..MaxHull}

Variants == {"calc_rot_to_forward", "align_min_bounds"}

MbbInit ==
    /\ mpc = "start"
    /\ variant \in Variants
    /\ hull \in Hulls
    /\ angles = <<>> /\ mk = 0
    /\ best_box = <<>> /\ best_idx = 0 /\ out_rot = <<>>

EdgeAngles ==
    /\ mpc = "start"
    /\ angles' = GetEdgeAngles2D(hull)
    /\ best_box' = Sentinel(variant)
    /\ mpc' = "search"
    /\ UNCHANGED <<variant, hull, mk, best_idx, out_rot>>
    /\ UNCHANGED <<ipcVars, wireVars, sliceVars, ufVars, adjVars, otherVars>>

SearchStep ==
    /\ mpc = "search"
    /\ mk < Len(angles)
    /\ LET box == CandidateBox(hull, angles[mk + 1]) IN
         IF Replaces(box, best_box)
         THEN best_box' = box /\ best_idx' = mk + 1
         ELSE UNCHANGED <<best_box, best_idx>>
    /\ mk' = mk + 1
    /\ UNCHANGED <<mpc, variant, hull, angles, out_rot>>
    /\ UNCHANGED <<ipcVars, wireVars, sliceVars, ufVars, adjVars, otherVars>>

MbbReturn ==
    /\ mpc = "search"
    /\ mk = Len(angles)
    /\ out_rot' = best_box.rotation_angle
    /\ mpc' = "done"
    /\ UNCHANGED <<variant, hull, angles, mk, best_box, best_idx>>
    /\ UNCHANGED <<ipcVars, wireVars, sliceVars, ufVars, adjVars, otherVars>>

InitMbb == MbbInit /\ IpcIdle /\ WireIdle /\ SliceIdle /\ UfIdle /\ AdjIdle /\ OtherIdle
NextMbb == EdgeAngles \/ SearchStep \/ MbbReturn
SpecMbb == InitMbb /\ [][NextMbb]_vars

\* the area of the box aligned to the j-th hull edge that has a direction
CandidateArea(j) == CandidateBox(hull, angles[j]).area

\* C10: when the search has returned for a hull with at least one edge
\* direction, the rotation returned is that of a candidate whose box area is
\* <= the box area of every candidate, and every candidate before it in
\* hull-edge order has a strictly larger area (a later candidate of equal
\* area has not replaced it).
C10_FirstMinimalCandidateWins ==
    (mpc = "done" /\ Len(angles) > 0) =>
        /\ best_idx \in 1..Len(angles)
        /\ out_rot = Neg(angles[best_idx])
        /\ best_box.area = CandidateArea(best_idx)
        /\ \A j \in 1..Len(angles) : AreaLessEq(best_box.area, CandidateArea(j))
        /\ \A j \in 1..(best_idx - 1) : AreaLess(best_box.area, CandidateArea(j))

\* a search that replaced its first candidate and then met a later candidate
\* of the same area as the chosen one
C10_Witness ==
    /\ mpc = "done" /\ Len(angles) >= 3
    /\ best_idx > 1
    /\ \E j \in (best_idx + 1)..Len(angles) :
         /\ ~AreaLess(CandidateArea(j), best_box.area)
         /\ ~AreaLess(best_box.area, CandidateArea(j))

\* the number of distinct points of the hull
DistinctPoints(h) == Cardinality({h[i] : i \in 1..Len(h)})

\* C11: when the search has returned for a hull of zero, one or two distinct
\* points, the best box is still the sentinel (no candidate replaced it) and
\* the rotation returned is the identity.
C11_DegenerateHullKeepsSentinel ==
    (mpc = "done" /\ DistinctPoints(hull) <= 2) =>
        /\ best_box = Sentinel(variant)
        /\ best_idx = 0
        /\ out_rot = ZeroAngle

\* C11 for the hulls without any edge direction (zero points or one point)
C11_NoEdgeKeepsSentinel ==
    (mpc = "done" /\ DistinctPoints(hull) <= 1) =>
        /\ best_box = Sentinel(variant)
        /\ best_idx = 0
        /\ out_rot = ZeroAngle

\* ------------------------------------------------------------------------
\* analysis.cpp: calc_cog_volume_edges_intersections, the slice estimator.
\* Heights (z) and the slice height are integers, so that the divisions, the
\* floor and the ceil of the code are exact; EPS (1e-8) is below one unit.
\* Vertex ids are 1..vertCount and slice indices 0..slice_count-1 as in the
\* code; slice si is element si + 1 of the per-slice sequences.  The hulls
\* and the centroid built from the points are not modelled: the value
\* returned on the regular path is the token Overall.
\* ------------------------------------------------------------------------
ZMax == 4
MaxSliceHeight == 3

FloorDiv(a, b) == a \div b                      \* std::floor(a / b), b > 0
CeilDiv(a, b) == 0 - ((0 - a) \div b)           \* std::ceil(a / b), b > 0

Vec3Of(x, y, z) == [kind |-> "vec", v |-> <<x, y, z>>]
Overall == [kind |-> "overall"]

\* the arguments: a mesh of two vertices or none, at most one edge,
\* any box, any slice height, null or non-null pointers
SliceEdgeLists == {<<>>, << <<1, 2>> >>, << <<2, 1>> >>}
SliceInputs ==
    {[verts_null |-> nul = "verts", edges_null |-> nul = "edges",
      vertCount |-> Len(vz), vert_z |-> vz,
      edgeCount |-> Len(es), edges |-> es,
      min_corner |-> <<bx, 0, z0>>, max_z |-> z1, slice_height |-> h] :
        nul \in {"none", "verts", "edges"},
        vz \in {<<>>} \cup [1..2 -> 0..ZMax],
        es \in SliceEdgeLists,
        bx \in {0, 1}, z0 \in {0, 1}, z1 \in 0..ZMax,
        h \in (0 - 1)..MaxSliceHeight}

\* a variant that lets a non-positive slice height through
NullOrEmpty_NoHeightTest(in) ==
    in.verts_null \/ in.edges_null \/ in.vertCount = 0 \/ in.edgeCount = 0
\* if (!verts || !edges || vertCount == 0 || edgeCount == 0 || slice_height <= 0.f)
NullOrEmpty(in) ==
    in.verts_null \/ in.edges_null \/ in.vertCount = 0 \/ in.edgeCount = 0
        \/ in.slice_height <= 0

total_h(in) == in.max_z - in.min_corner[3]

\* uint8_t slice_count = min(ceil(total_h / slice_height), 255)
SLICE_CAP == 255
slice_count(in) == Min2(CeilDiv(total_h(in), in.slice_height), SLICE_CAP)

MakeSliceBounds(in) ==
    [k \in 1..slice_count(in) |->
        LET zl == in.min_corner[3] + (k - 1) * in.slice_height
        IN  [z_lower |-> zl, z_upper |-> Min2(in.max_z, zl + in.slice_height)]]

SliceInit ==
    /\ spc = "start"
    /\ s_in \in SliceInputs
    /\ s_touched = FALSE /\ slices = <<>> /\ slice_edges = <<>>
    /\ slice_vertices = <<>> /\ s_pts = <<>> /\ s_ret = <<>>

\* the two early returns
EarlyReturn ==
    /\ spc = "start"
    /\ \/ NullOrEmpty(s_in) /\ s_ret' = Vec3Of(0, 0, 0)
       \/ ~NullOrEmpty(s_in) /\ total_h(s_in) <= 0
             /\ s_ret' = Vec3Of(0, 0, s_in.min_corner[3])
    /\ spc' = "done"
    /\ UNCHANGED <<s_in, s_touched, slices, slice_edges, slice_vertices, s_pts>>
    /\ UNCHANGED <<ipcVars, wireVars, mbbVars, ufVars, adjVars, otherVars>>

\* the precomputed vertex and edge arrays, and the slice intervals
MakeSlices ==
    /\ spc = "start"
    /\ ~NullOrEmpty(s_in) /\ total_h(s_in) > 0
    /\ s_touched' = TRUE
    /\ slices' = MakeSliceBounds(s_in)
    /\ spc' = "bucket_edges"
    /\ UNCHANGED <<s_in, slice_edges, slice_vertices, s_pts, s_ret>>
    /\ UNCHANGED <<ipcVars, wireVars, mbbVars, ufVars, adjVars, otherVars>>

\* bucket_edges_per_slice: the slices one edge is pushed into
EdgeSlices(zA, zB, z0, h, count) ==
    LET zmin == Min2(zA, zB)
        zmax == IF zA < zB THEN zB ELSE zA
        first == CeilDiv(zmin - z0, h)
        last == FloorDiv(zmax - z0, h)
        lo == IF first < 0 THEN 0 ELSE first
        hi == IF last >= count THEN count - 1 ELSE last
    IN  IF zmax <= z0 \/ zmin >= z0 + h * count THEN {}
        ELSE IF first > last THEN {}
        ELSE IF last < 0 \/ first >= count THEN {}
        ELSE lo..hi

RECURSIVE BucketEdgesLoop(_, _, _)
BucketEdgesLoop(in, ei, buckets) ==
    IF ei > in.edgeCount THEN buckets
    ELSE LET e == in.edges[ei]
             into == EdgeSlices(in.vert_z[e[1]], in.vert_z[e[2]], in.min_corner[3],
                                in.slice_height, slice_count(in))
         IN  BucketEdgesLoop(in, ei + 1,
                 [k \in 1..Len(buckets) |->
                     IF (k - 1) \in into THEN Append(buckets[k], ei) ELSE buckets[k]])

BucketEdgesPerSlice(in) ==
    BucketEdgesLoop(in, 1, [k \in 1..slice_count(in) |-> <<>>])

\* a variant that buckets the top of the box into the last slice
VertexSlice_Clamped(z, in) ==
    IF z < in.min_corner[3] \/ z > in.max_z THEN {}
    ELSE LET si == FloorDiv(z - in.min_corner[3], in.slice_height)
         IN  {Min2(si, slice_count(in) - 1)}
\* the slices one vertex is pushed into (analysis.cpp:322-327)
VertexSlice(z, in) ==
    IF z < in.min_corner[3] \/ z > in.max_z THEN {}
    ELSE LET si == FloorDiv(z - in.min_corner[3], in.slice_height)
         IN  IF si >= 0 /\ si < slice_count(in) THEN {si} ELSE {}

RECURSIVE BucketVertsLoop(_, _, _)
BucketVertsLoop(in, vid, buckets) ==
    IF vid > in.vertCount THEN buckets
    ELSE LET into == VertexSlice(in.vert_z[vid], in)
         IN  BucketVertsLoop(in, vid + 1,
                 [k \in 1..Len(buckets) |->
                     IF (k - 1) \in into THEN Append(buckets[k], vid) ELSE buckets[k]])

BucketVertices(in) ==
    BucketVertsLoop(in, 1, [k \in 1..slice_count(in) |-> <<>>])

\* build_slice_islands: the planes at which one edge adds an intersection
\* point for the slice [z_lower, z_upper]
Inside(z, z_lower, z_upper) == z >= z_lower /\ z <= z_upper
\* a variant that counts an endpoint on the plane as a crossing
Crosses_OrTouches(zA, zB, plane) == (zA - plane) * (zB - plane) <= 0
Crosses(zA, zB, plane) == (zA - plane) * (zB - plane) < 0

AddedPoints(zA, zB, z_lower, z_upper) ==
    LET A_inside == Inside(zA, z_lower, z_upper)
        B_inside == Inside(zB, z_lower, z_upper)
        atLower == IF Crosses(zA, zB, z_lower) THEN <<"lower">> ELSE <<>>
        atUpper == IF Crosses(zA, zB, z_upper) THEN <<"upper">> ELSE <<>>
    IN  IF zB - zA = 0 THEN <<>>
        ELSE IF ~A_inside /\ ~B_inside THEN atLower \o atUpper
        ELSE IF A_inside # B_inside
             THEN (IF atLower # <<>> THEN atLower ELSE atUpper)
        ELSE <<>>

RECURSIVE IslandPointsLoop(_, _, _, _)
IslandPointsLoop(in, sl, bucket, acc) ==
    IF bucket = <<>> THEN acc
    ELSE LET ei == Head(bucket)
             e == in.edges[ei]
             planes == AddedPoints(in.vert_z[e[1]], in.vert_z[e[2]], sl.z_lower, sl.z_upper)
         IN  IslandPointsLoop(in, sl, Tail(bucket),
                 acc \o [j \in 1..Len(planes) |-> [edge |-> ei, plane |-> planes[j]]])

BucketSliceEdges ==
    /\ spc = "bucket_edges"
    /\ slice_edges' = BucketEdgesPerSlice(s_in)
    /\ spc' = "bucket_verts"
    /\ UNCHANGED <<s_in, s_touched, slices, slice_vertices, s_pts, s_ret>>
    /\ UNCHANGED <<ipcVars, wireVars, mbbVars, ufVars, adjVars, otherVars>>

BucketSliceVertices ==
    /\ spc = "bucket_verts"
    /\ slice_vertices' = BucketVertices(s_in)
    /\ spc' = "islands"
    /\ UNCHANGED <<s_in, s_touched, slices, slice_edges, s_pts, s_ret>>
    /\ UNCHANGED <<ipcVars, wireVars, mbbVars, ufVars, adjVars, otherVars>>

\* the loop over the slices: a slice without edges is skipped
SliceIslands ==
    /\ spc = "islands"
    /\ s_pts' = [k \in 1..Len(slices) |->
                    IslandPointsLoop(s_in, slices[k], slice_edges[k], <<>>)]
    /\ spc' = "aggregate"
    /\ UNCHANGED <<s_in, s_touched, slices, slice_edges, slice_vertices, s_ret>>
    /\ UNCHANGED <<ipcVars, wireVars, mbbVars, ufVars, adjVars, otherVars>>

SliceReturn ==
    /\ spc = "aggregate"
    /\ s_ret' = Overall
    /\ spc' = "done"
    /\ UNCHANGED <<s_in, s_touched, slices, slice_edges, slice_vertices, s_pts>>
    /\ UNCHANGED <<ipcVars, wireVars, mbbVars, ufVars, adjVars, otherVars>>

InitSlice == SliceInit /\ IpcIdle /\ WireIdle /\ MbbIdle /\ UfIdle /\ AdjIdle /\ OtherIdle
NextSlice ==
    EarlyReturn \/ MakeSlices \/ BucketSliceEdges \/ BucketSliceVertices
        \/ SliceIslands \/ SliceReturn
SpecSlice == InitSlice /\ [][NextSlice]_vars

\* the call is one of the degenerate ones
DegenerateCall ==
    s_in.vertCount = 0 \/ s_in.edgeCount = 0 \/ s_in.slice_height <= 0
        \/ total_h(s_in) <= 0

\* C12: a call with zero vertices, zero edges, a non-positive slice height
\* or a non-positive total height returns at once: no slice is built, no
\* buffer is read, and the value returned is the minimum corner of the box
\* or the zero vector.
C12_DegenerateReturnsMinCornerOrZero ==
    (spc # "start" /\ DegenerateCall) =>
        /\ spc = "done"
        /\ ~s_touched /\ slices = <<>> /\ slice_edges = <<>> /\ slice_vertices = <<>>
        /\ s_ret \in {Vec3Of(0, 0, 0),
                      Vec3Of(s_in.min_corner[1], s_in.min_corner[2], s_in.min_corner[3])}

\* C12 with the value the code returns for a box without height
C12_DegenerateReturnsAtOnce ==
    (spc # "start" /\ DegenerateCall) =>
        /\ spc = "done"
        /\ ~s_touched /\ slices = <<>> /\ slice_edges = <<>> /\ slice_vertices = <<>>
        /\ s_ret \in {Vec3Of(0, 0, 0), Vec3Of(0, 0, s_in.min_corner[3])}

\* ------------------------------------------------------------------------
\* build_adj_vertices: the edge-list builder of engine.cpp and the face-list
\* builder of bounds.cpp.  Vertex ids are 1..vertCount (0..vertCount-1 in
\* the code); an id above vertCount is an index >= the vertex count.
\* ------------------------------------------------------------------------
MaxIndex == 3
MaxAdjEdges == 2
MaxAdjFaces == 1

SeqsUpTo(S, n) == UNION {[1..k -> S] : k \in 0..n}
Ids == 1..MaxIndex
EdgeLists == SeqsUpTo(Ids \X Ids, MaxAdjEdges)
FaceLists == SeqsUpTo(Ids \X Ids \X Ids, MaxAdjFaces)

\* some element of the list is an index >= the vertex count
OutOfRange(list, n) ==
    \E i \in 1..Len(list) : \E j \in 1..Len(list[i]) : list[i][j] > n

\* bounds.cpp: the three guarded pairs of one face
PushFacePairs(adj, f, n) ==
    LET a1 == IF f[1] <= n /\ f[2] <= n
              THEN PushBack(PushBack(adj, f[1], f[2]), f[2], f[1]) ELSE adj
        a2 == IF f[2] <= n /\ f[3] <= n
              THEN PushBack(PushBack(a1, f[2], f[3]), f[3], f[2]) ELSE a1
    IN  IF f[3] <= n /\ f[1] <= n
        THEN PushBack(PushBack(a2, f[3], f[1]), f[1], f[3]) ELSE a2

RECURSIVE PushFaces(_, _, _, _)
PushFaces(faces, i, adj, n) ==
    IF i > Len(faces) THEN adj
    ELSE PushFaces(faces, i + 1, PushFacePairs(adj, faces[i], n), n)

AdjInit ==
    /\ apc = "start" /\ a_status = "running" /\ a_oob = FALSE
    /\ a_vertCount \in 0..MaxIndex
    /\ \/ a_variant = "edges" /\ a_in \in EdgeLists
       \/ a_variant = "faces" /\ a_in \in FaceLists
    /\ out_adj = [v \in 1..a_vertCount |-> <<>>]

\* the early returns: no edges; no vertices or no faces
AdjEmptyReturn ==
    /\ apc = "start"
    /\ \/ a_variant = "edges" /\ Len(a_in) = 0
       \/ a_variant = "faces" /\ (a_vertCount = 0 \/ Len(a_in) = 0)
    /\ apc' = "done" /\ a_status' = "returned"
    /\ UNCHANGED <<a_variant, a_vertCount, a_in, out_adj, a_oob>>
    /\ UNCHANGED <<ipcVars, wireVars, mbbVars, sliceVars, ufVars, otherVars>>

\* engine.cpp: the degree count and the push loop index degrees and
\* adj_verts with e.x and e.y unchecked; an index >= vertCount is a write
\* outside the vectors, after which the process crashes or goes on
AdjPushEdges ==
    /\ apc = "start" /\ a_variant = "edges" /\ Len(a_in) > 0
    /\ a_oob' = OutOfRange(a_in, a_vertCount)
    /\ \/ a_oob' /\ apc' = "done" /\ a_status' = "crashed" /\ UNCHANGED out_adj
       \/ /\ out_adj' = PushEdges(a_in, 1, out_adj)
          /\ apc' = "sort" /\ UNCHANGED a_status
    /\ UNCHANGED <<a_variant, a_vertCount, a_in>>
    /\ UNCHANGED <<ipcVars, wireVars, mbbVars, sliceVars, ufVars, otherVars>>

\* bounds.cpp: the push loop, every pair behind its index test
AdjPushFaces ==
    /\ apc = "start" /\ a_variant = "faces" /\ a_vertCount # 0 /\ Len(a_in) > 0
    /\ out_adj' = PushFaces(a_in, 1, out_adj, a_vertCount)
    /\ apc' = "sort"
    /\ UNCHANGED <<a_variant, a_vertCount, a_in, a_oob, a_status>>
    /\ UNCHANGED <<ipcVars, wireVars, mbbVars, sliceVars, ufVars, otherVars>>

AdjSortUnique ==
    /\ apc = "sort"
    /\ out_adj' = SortUniqueAll(out_adj)
    /\ apc' = "done" /\ a_status' = "returned"
    /\ UNCHANGED <<a_variant, a_vertCount, a_in, a_oob>>
    /\ UNCHANGED <<ipcVars, wireVars, mbbVars, sliceVars, ufVars, otherVars>>

InitAdj == AdjInit /\ IpcIdle /\ WireIdle /\ MbbIdle /\ SliceIdle /\ UfIdle /\ OtherIdle
NextAdj == AdjEmptyReturn \/ AdjPushEdges \/ AdjPushFaces \/ AdjSortUnique
SpecAdj == InitAdj /\ [][NextAdj]_vars

StrictlyIncreasing(t) == \A i \in 1..(Len(t) - 1) : t[i] < t[i + 1]

\* C13: when a builder returns a graph, every neighbor list is strictly
\* increasing; for the edge-list builder this is stated for the inputs whose
\* indices are all below the vertex count (the others are undefined
\* behaviour there).
C13_NeighborListsStrictlyIncreasing ==
    (apc = "done" /\ a_status = "returned"
        /\ (a_variant = "faces" \/ ~OutOfRange(a_in, a_vertCount))) =>
        \A v \in 1..a_vertCount : StrictlyIncreasing(out_adj[v])

\* an edge given twice or in both directions, and a list of two neighbors
C13_Witness ==
    /\ apc = "done" /\ a_status = "returned" /\ a_variant = "edges"
    /\ ~OutOfRange(a_in, a_vertCount)
    /\ Len(a_in) = 2
    /\ a_in[1] # a_in[2] /\ {a_in[1][1], a_in[1][2]} = {a_in[2][1], a_in[2][2]}
    /\ a_in[1][1] # a_in[1][2]
    /\ \E v \in 1..a_vertCount : Len(out_adj[v]) = 1

\* C14: for an input with an index >= the vertex count the builder does not
\* return a graph and has accessed no list outside 0..vertCount-1.
C14_OutOfRangeFailsFast ==
    (apc = "done" /\ OutOfRange(a_in, a_vertCount)) =>
        a_status # "returned" /\ ~a_oob

\* ------------------------------------------------------------------------
\* The component pass and the regrowth of the wire detector
\* ------------------------------------------------------------------------
\* the component pass has just ended: nothing is regrown yet
PassEnded ==
    wpc = "regrow" /\ queue = boundary_indices /\ \A u \in Verts : promoted[u] = 0

\* the initially wire-marked vertex v lies in a component that the rule of
\* section 4.2 step 5 keeps
InKeptComponent(v) ==
    /\ init_wire[v]
    /\ \/ Cardinality(WireComponent(v)) >= 10
       \/ ComponentBounds(WireComponent(v)) = {}

\* C15: when the component pass has ended, an initially wire-marked vertex
\* is still marked wire if and only if its component has at least 10 members
\* or no adjacent non-wire vertex, no other vertex is marked, and the
\* recorded boundary vertices are exactly the non-wire neighbors of the
\* components that stayed wire.
C15_ComponentPassKeepsLargeOrIsolated ==
    PassEnded =>
        /\ \A v \in Verts : is_wire[v] <=> InKeptComponent(v)
        /\ Range(boundary_indices) =
              {u \in Verts : ~init_wire[u]
                   /\ \E v \in Neighbors(u) : InKeptComponent(v)}

\* a pass that kept a component of at least 10 members with a boundary,
\* and reverted a smaller one
C15_Witness ==
    /\ PassEnded /\ boundary_indices # <<>>
    /\ \E v, u \in Verts :
         /\ init_wire[v] /\ is_wire[v] /\ ComponentBounds(WireComponent(v)) # {}
         /\ init_wire[u] /\ ~is_wire[u]

\* v is not marked wire when regrowth starts
NonWireBeforeRegrowth(v) == ~InKeptComponent(v)
AboveRegrowThreshold == {u \in Verts : linearity_scores[u] > REGROW_THRESHOLD}

\* C16: during and after regrowth every vertex marked before it is marked
\* and every vertex promoted has a score above the regrowth threshold; when
\* regrowth has ended, a vertex that was not marked before it is marked if
\* and only if its score is above the threshold and it is joined to a
\* recorded boundary vertex by a path of vertices above the threshold.
C16_RegrowthFollowsThreshold ==
    /\ (wpc = "regrow" \/ (wpc = "done" /\ vertCount > 0)) =>
          \A v \in Verts :
              /\ InKeptComponent(v) => is_wire[v]
              /\ (is_wire[v] /\ NonWireBeforeRegrowth(v)) => v \in AboveRegrowThreshold
              /\ promoted[v] > 0 => is_wire[v]
    /\ (wpc = "done" /\ vertCount > 0) =>
          LET reached == Closure(Range(boundary_indices) \cap AboveRegrowThreshold,
                                 AboveRegrowThreshold)
          IN  \A v \in Verts : NonWireBeforeRegrowth(v) =>
                  (is_wire[v] <=> v \in reached)

\* a regrowth that promoted a recorded boundary vertex and stopped at a
\* neighbor of it that is not above the threshold
C16_Witness ==
    /\ wpc = "done"
    /\ \E b \in Range(boundary_indices) :
         /\ promoted[b] = 1
         /\ \E u \in Neighbors(b) :
              /\ u \notin Range(boundary_indices)
              /\ u \notin AboveRegrowThreshold /\ ~is_wire[u]

\* ------------------------------------------------------------------------
\* analysis.cpp: the global union-find of the slice estimator (uf_parent,
\* uf_rank, uf_find with path compression, uf_unite by rank), one unite per
\* edge, then one find per vertex.  Vertex ids are 1..uf_n.
\* ------------------------------------------------------------------------
UfVerts == 4
UfEdges == 3

UfIds == 1..UfVerts
\* The edge lists, up to a renaming of the vertices (the union-find compares
\* ids for equality only): the ids appear for the first time in increasing
\* order, a vertex that no edge names has the highest ids.
Flat(l) == [j \in 1..(2 * Len(l)) |-> l[(j + 1) \div 2][2 - (j % 2)]]
FirstUseInOrder(l) ==
    LET f == Flat(l)
    IN  \A j \in 1..Len(f) : \A v \in 1..(f[j] - 1) : \E i \in 1..(j - 1) : f[i] = v
UfEdgeLists == {l \in SeqsUpTo(UfIds \X UfIds, UfEdges) : FirstUseInOrder(l)}

\* uf_find: the root of x and the parents after path compression
RECURSIVE UfFind(_, _)
UfFind(parent, x) ==
    IF parent[x] # x
    THEN LET r == UfFind(parent, parent[x])
         IN  [root |-> r.root, parent |-> [r.parent EXCEPT ![x] = r.root]]
    ELSE [root |-> x, parent |-> parent]

\* a variant that links the two vertices of the edge instead of their roots
LinkEnds_NoFind(a, b, ra, rb) == <<a, b>>
\* a = uf_find(a); b = uf_find(b);
LinkEnds(a, b, ra, rb) == <<ra, rb>>

\* uf_unite
UfUnite(parent, rank, a0, b0) ==
    LET fa == UfFind(parent, a0)
        fb == UfFind(fa.parent, b0)
        ends == LinkEnds(a0, b0, fa.root, fb.root)
        swap == rank[ends[1]] < rank[ends[2]]
        a == IF swap THEN ends[2] ELSE ends[1]
        b == IF swap THEN ends[1] ELSE ends[2]
    IN  IF ends[1] = ends[2] THEN [parent |-> fb.parent, rank |-> rank]
        ELSE [parent |-> [fb.parent EXCEPT ![b] = a],
              rank |-> IF rank[a] = rank[b] THEN [rank EXCEPT ![a] = @ + 1] ELSE rank]

UfInit ==
    /\ upc = "unite"
    /\ uf_n = UfVerts
    /\ uf_edges \in UfEdgeLists
    /\ uf_parent = [i \in UfIds |-> i]
    /\ uf_rank = [i \in UfIds |-> 0]
    /\ uf_ei = 0
    /\ vertex_comp = <<>>

\* one iteration of the loop over the edges
UniteEdge ==
    /\ upc = "unite" /\ uf_ei < Len(uf_edges)
    /\ LET e == uf_edges[uf_ei + 1]
           u == UfUnite(uf_parent, uf_rank, e[1], e[2])
       IN  uf_parent' = u.parent /\ uf_rank' = u.rank
    /\ uf_ei' = uf_ei + 1
    /\ UNCHANGED <<upc, uf_n, uf_edges, vertex_comp>>
    /\ UNCHANGED <<ipcVars, wireVars, mbbVars, sliceVars, adjVars, otherVars>>

UnionsDone ==
    /\ upc = "unite" /\ uf_ei = Len(uf_edges)
    /\ upc' = "roots"
    /\ UNCHANGED <<uf_n, uf_edges, uf_parent, uf_rank, uf_ei, vertex_comp>>
    /\ UNCHANGED <<ipcVars, wireVars, mbbVars, sliceVars, adjVars, otherVars>>

\* one iteration of vertex_comp[i] = uf_find(i)
FindRoot ==
    /\ upc = "roots" /\ Len(vertex_comp) < uf_n
    /\ LET f == UfFind(uf_parent, Len(vertex_comp) + 1)
       IN  uf_parent' = f.parent /\ vertex_comp' = Append(vertex_comp, f.root)
    /\ UNCHANGED <<upc, uf_n, uf_edges, uf_rank, uf_ei>>
    /\ UNCHANGED <<ipcVars, wireVars, mbbVars, sliceVars, adjVars, otherVars>>

RootsDone ==
    /\ upc = "roots" /\ Len(vertex_comp) = uf_n
    /\ upc' = "done"
    /\ UNCHANGED <<uf_n, uf_edges, uf_parent, uf_rank, uf_ei, vertex_comp>>
    /\ UNCHANGED <<ipcVars, wireVars, mbbVars, sliceVars, adjVars, otherVars>>

InitUf == UfInit /\ IpcIdle /\ WireIdle /\ MbbIdle /\ SliceIdle /\ AdjIdle /\ OtherIdle
NextUf == UniteEdge \/ UnionsDone \/ FindRoot \/ RootsDone
SpecUf == InitUf /\ [][NextUf]_vars

\* the root of x, following the parents without changing them; 0 if the
\* parents do not lead to a root
RECURSIVE RootWithin(_, _)
RootWithin(x, fuel) ==
    IF uf_parent[x] = x THEN x
    ELSE IF fuel = 0 THEN 0
    ELSE RootWithin(uf_parent[x], fuel - 1)
RootOf(x) == RootWithin(x, uf_n)

\* the vertices joined to the set S by paths of the first k edges
RECURSIVE JoinedTo(_, _)
JoinedTo(S, k) ==
    LET more == {v \in 1..uf_n : \E i \in 1..k :
                    \/ uf_edges[i][1] \in S /\ uf_edges[i][2] = v
                    \/ uf_edges[i][2] \in S /\ uf_edges[i][1] = v}
    IN  IF more \subseteq S THEN S ELSE JoinedTo(S \cup more, k)
Connected(a, b, k) == b \in JoinedTo({a}, k)

\* C17: at every point of the loops, two vertices have the same root if and
\* only if a path of the edges united so far joins them (so a find, which
\* compresses paths, changes no component); when every edge has been united
\* and every root computed, two vertices have the same component id if and
\* only if a path of edges of the mesh joins them.
C17_SameRootIffConnected ==
    /\ upc # "off" =>
          \A a, b \in 1..uf_n :
              /\ RootOf(a) # 0
              /\ (RootOf(a) = RootOf(b)) <=> Connected(a, b, uf_ei)
    /\ upc = "done" =>
          \A a, b \in 1..uf_n :
              (vertex_comp[a] = vertex_comp[b]) <=> Connected(a, b, Len(uf_edges))

\* every edge is united, some vertex hangs two links below its root (the
\* finds that follow compress its path), and two vertices without an edge
\* between them share a root
C17_Witness ==
    /\ upc = "roots" /\ vertex_comp = <<>>
    /\ \E x \in 1..uf_n : uf_parent[uf_parent[x]] # uf_parent[x]
    /\ \E a, b \in 1..uf_n :
         /\ a # b /\ RootOf(a) = RootOf(b)
         /\ \A i \in 1..Len(uf_edges) : {uf_edges[i][1], uf_edges[i][2]} # {a, b}

\* ------------------------------------------------------------------------
\* The buckets and the intersection points of the slice estimator
\* ------------------------------------------------------------------------
EdgesBucketed == slice_edges # <<>>
VerticesBucketed == slice_vertices # <<>>
EdgeIds == 1..s_in.edgeCount
SliceIds == 1..Len(slices)
zOfA(ei) == s_in.vert_z[s_in.edges[ei][1]]
zOfB(ei) == s_in.vert_z[s_in.edges[ei][2]]
zLow(ei) == Min2(zOfA(ei), zOfB(ei))
zHigh(ei) == IF zOfA(ei) < zOfB(ei) THEN zOfB(ei) ELSE zOfA(ei)
InBucket(ei, k) == ei \in Range(slice_edges[k])

\* the z-span of the edge and the z-interval of the slice share more than a
\* plane (an edge strictly inside the slice, horizontal or not, included)
Overlaps(ei, k) == zHigh(ei) > slices[k].z_lower /\ zLow(ei) < slices[k].z_upper
\* they share at least a point
Touches(ei, k) == zHigh(ei) >= slices[k].z_lower /\ zLow(ei) <= slices[k].z_upper

\* C18: once the edges are bucketed, an edge is in the bucket of every slice
\* its z-span overlaps, and in the bucket of no slice its z-span does not
\* even touch.
C18_EdgeInEverySliceItOverlaps ==
    EdgesBucketed =>
        \A ei \in EdgeIds : \A k \in SliceIds :
            /\ Overlaps(ei, k) => InBucket(ei, k)
            /\ InBucket(ei, k) => Touches(ei, k)

\* C18, the half the code keeps: an edge is in no bucket of a slice that its
\* z-span does not touch, and in no bucket twice
C18_EdgeOnlyInTouchedSlices ==
    EdgesBucketed =>
        \A ei \in EdgeIds : \A k \in SliceIds :
            /\ InBucket(ei, k) => Touches(ei, k)
            /\ Cardinality({j \in 1..Len(slice_edges[k]) : slice_edges[k][j] = ei}) <= 1

InBox(vid) ==
    s_in.vert_z[vid] >= s_in.min_corner[3] /\ s_in.vert_z[vid] <= s_in.max_z
SlicesOf(vid) == {k \in SliceIds : vid \in Range(slice_vertices[k])}

\* C19: once the vertices are bucketed, every vertex whose z lies in
\* [min z, max z] of the box is in the bucket of exactly one slice, once,
\* and the interval of that slice contains its z.
C19_InBoxVertexInExactlyOneSlice ==
    VerticesBucketed =>
        \A vid \in 1..s_in.vertCount : InBox(vid) =>
            /\ Cardinality(SlicesOf(vid)) = 1
            /\ \A k \in SlicesOf(vid) :
                 /\ slices[k].z_lower <= s_in.vert_z[vid]
                 /\ s_in.vert_z[vid] <= slices[k].z_upper
                 /\ Cardinality({j \in 1..Len(slice_vertices[k]) :
                                    slice_vertices[k][j] = vid}) = 1

\* C19 without the vertices on the last slice's upper plane
C19_VertexInAtMostOneSlice ==
    VerticesBucketed =>
        \A vid \in 1..s_in.vertCount :
            /\ Cardinality(SlicesOf(vid)) <= 1
            /\ \A k \in SlicesOf(vid) :
                 /\ InBox(vid)
                 /\ slices[k].z_lower <= s_in.vert_z[vid]
                 /\ s_in.vert_z[vid] <= slices[k].z_upper
            /\ (InBox(vid) /\ SlicesOf(vid) = {}) =>
                 s_in.vert_z[vid] = s_in.min_corner[3] + slice_count(s_in) * s_in.slice_height

PointsAdded == s_pts # <<>>
\* the points the edge added to the slice
PointsOf(ei, k) == {j \in 1..Len(s_pts[k]) : s_pts[k][j].edge = ei}
WithinSlice(z, k) == slices[k].z_lower <= z /\ z <= slices[k].z_upper
\* the plane lies strictly between the two endpoints
StrictlyBetween(ei, plane) == zLow(ei) < plane /\ plane < zHigh(ei)
PlanesCrossed(ei, k) ==
    {pl \in {"lower", "upper"} :
        StrictlyBetween(ei, IF pl = "lower" THEN slices[k].z_lower ELSE slices[k].z_upper)}

W16 == 65536
U8 == 256
SmallSpan == 3

Wide(hi, lo) == [hi |-> hi, lo |-> lo]
\* 2^32 - 256, 2^32, 2^32 + 512, 2^33
LargeSpans == {Wide(W16 - 1, W16 - 256), Wide(W16, 0), Wide(W16, 512), Wide(2 * W16, 0)}
CountInputs ==
    {[span |-> Wide(0, sp), h |-> h] :
        sp \in (1..SmallSpan) \cup {254, 255, 256, 257, 510, 511},
        h \in 1..MaxSliceHeight}
    \cup {[span |-> sp, h |-> 1] : sp \in LargeSpans}

\* std::ceil(total_h / slice_height)
CeilQuotient(in) ==
    IF in.span.hi = 0 THEN Wide(0, CeilDiv(in.span.lo, in.h)) ELSE in.span
\* (uint32_t)x for a float x >= 0: the value when it is below 2^32; undefined
\* otherwise: the low 32 bits of the 64-bit conversion, or the saturated value
ToU32(x) ==
    IF x.hi < W16 THEN {x} ELSE {Wide(x.hi % W16, x.lo), Wide(W16 - 1, W16 - 1)}
\* std::min<uint32_t>(raw, cap), for a cap below 2^16
MinU32(raw, cap) == IF raw.hi > 0 THEN cap ELSE Min2(raw.lo, cap)
\* (uint8_t)std::min<uint32_t>(raw_count, 255)
Capped(raw) == MinU32(raw, SLICE_CAP) % U8
\* min(255, ceil(span / slice height))
CappedCeil(in) == MinU32(CeilQuotient(in), SLICE_CAP)

CountInit ==
    /\ cpc = "start" /\ c_in \in CountInputs
    /\ raw_count = Wide(0, 0) /\ c_count = 0 /\ c_len = 0 /\ c_si = 0
    /\ c_order = [fill |-> <<>>, islands |-> <<>>]

\* lines 288-291
CountSlices ==
    /\ cpc = "start"
    /\ \E r \in ToU32(CeilQuotient(c_in)) :
         /\ raw_count' = r
         /\ c_count' = Capped(r)
         /\ c_len' = Capped(r)
    /\ c_si' = 0
    /\ cpc' = "fill"
    /\ UNCHANGED <<c_in, c_order>>
    /\ UNCHANGED <<ipcVars, wireVars, mbbVars, sliceVars, ufVars, adjVars, gatherVars, islandVars>>

\* for (uint8_t si = 0; si < slice_count; ++si) of lines 292-295
FillStep ==
    /\ cpc = "fill" /\ c_si < c_count
    /\ c_order' = [c_order EXCEPT !.fill = Append(@, c_si)]
    /\ c_si' = (c_si + 1) % U8
    /\ UNCHANGED <<cpc, c_in, raw_count, c_count, c_len>>
    /\ UNCHANGED <<ipcVars, wireVars, mbbVars, sliceVars, ufVars, adjVars, gatherVars, islandVars>>

FillExit ==
    /\ cpc = "fill" /\ ~(c_si < c_count)
    /\ cpc' = "islands" /\ c_si' = 0
    /\ UNCHANGED <<c_in, raw_count, c_count, c_len, c_order>>
    /\ UNCHANGED <<ipcVars, wireVars, mbbVars, sliceVars, ufVars, adjVars, gatherVars, islandVars>>

\* for (uint8_t si = 0; si < slice_count; ++si) of lines 355-382
IslandsStep ==
    /\ cpc = "islands" /\ c_si < c_count
    /\ c_order' = [c_order EXCEPT !.islands = Append(@, c_si)]
    /\ c_si' = (c_si + 1) % U8
    /\ UNCHANGED <<cpc, c_in, raw_count, c_count, c_len>>
    /\ UNCHANGED <<ipcVars, wireVars, mbbVars, sliceVars, ufVars, adjVars, gatherVars, islandVars>>

IslandsExit ==
    /\ cpc = "islands" /\ ~(c_si < c_count)
    /\ cpc' = "done"
    /\ UNCHANGED <<c_in, raw_count, c_count, c_len, c_si, c_order>>
    /\ UNCHANGED <<ipcVars, wireVars, mbbVars, sliceVars, ufVars, adjVars, gatherVars, islandVars>>

InitCount ==
    CountInit /\ IpcIdle /\ WireIdle /\ MbbIdle /\ SliceIdle /\ UfIdle /\ AdjIdle
        /\ GatherIdle /\ IslandIdle
NextCount == CountSlices \/ FillStep \/ FillExit \/ IslandsStep \/ IslandsExit
SpecCount == InitCount /\ [][NextCount]_vars
FairSpecCount == SpecCount /\ WF_vars(NextCount)

\* 0, 1, ..., n - 1
UpTo(n) == [i \in 1..n |-> i - 1]
\* each loop has visited the slices in order so far, and all of them once
\* it has ended
LoopsVisitEachOnce ==
    /\ c_len = c_count
    /\ \A l \in {"fill", "islands"} :
         Len(c_order[l]) <= c_count /\ c_order[l] = UpTo(Len(c_order[l]))
    /\ cpc \in {"islands", "done"} => c_order.fill = UpTo(c_count)
    /\ cpc = "done" => c_order.islands = UpTo(c_count)

\* C21: for every positive height span and slice height the slice count is
\* min(255, ceil(span / slice height)), at most 255, the slice array has
\* that many entries, and each loop over the slices visits every slice once.
C21_SliceCountIsCappedCeil ==
    cpc \notin {"off", "start"} =>
        /\ c_count = CappedCeil(c_in)
        /\ c_count <= SLICE_CAP
        /\ LoopsVisitEachOnce

\* C21 for the calls whose quotient a uint32_t holds
C21_CappedCeilWhenQuotientFits ==
    (cpc \notin {"off", "start"} /\ CeilQuotient(c_in).hi < W16) =>
        /\ c_count = CappedCeil(c_in)
        /\ c_count <= SLICE_CAP
        /\ LoopsVisitEachOnce

\* C21, the part that holds for every call
C21_CountWithinCapAndLoopsInOrder ==
    cpc \notin {"off", "start"} => c_count <= SLICE_CAP /\ LoopsVisitEachOnce

\* C21, termination of the two loops
C21_LoopsTerminate == <>(cpc = "done")

\* ------------------------------------------------------------------------
\* bounds.cpp:261-359, elim_wires: the loop over the search sources, the
\* graph-distance gather of each, the votes and the final scores.  Vertex
\* ids are 1..vertCount, so the sources are 1, 1 + STRIDE, ...  The vertices
\* lie on a line, the length of an edge is the distance of its ends.  The
\* covariance and eig3 are not modelled: the linearity of a source's
\* neighborhood is an input, 0 or one of two positive values.  A final score
\* is kept as the terms of votes[i] / (total_weights[i] + 1e-6f).
\* ------------------------------------------------------------------------
K_MAX == 70
STRIDE == 24
GVerts == 4          \* vertices of the freely connected meshes
GEdges == 3          \* their edges that are not self-loops

LinValues == {0, 1, 2}
Positions == {0, 1, 3}
SourcesOf(n) == {i \in 1..n : (i - 1) % STRIDE = 0}

\* the freely connected meshes: vertex 1 at 0, the others anywhere (ordered
\* by id, which loses no mesh up to renaming), any edges, a self-loop or not
GPairs(n) == {<<a, b>> : a \in 1..n, b \in 1..n} \cap {p \in (1..n) \X (1..n) : p[1] < p[2]}
SmallMeshes ==
    UNION {
        {[adj |-> BuildAdjVertices(SeqOfSet(E) \o (IF sl THEN << <<1, 1>> >> ELSE <<>>), n),
          pos |-> ps, lin |-> ln] :
            E \in {F \in SUBSET GPairs(n) : Cardinality(F) <= GEdges},
            sl \in BOOLEAN,
            ps \in {f \in [1..n -> Positions] :
                       f[1] = 0 /\ \A v \in 2..(n - 1) : f[v] <= f[v + 1]},
            ln \in [SourcesOf(n) -> LinValues \ {2}]} : n \in 1..GVerts}
\* a path of K_MAX + 2 vertices: three sources, and more vertices than one
\* gather may finalize.  The edges are 2 long, 3 where they leave a source,
\* so that no two vertices are equally far from a source.  The first and
\* the last source have a positive linearity, the middle one any.
PathLen == K_MAX + 2
PathMeshes ==
    {[adj |-> BuildAdjVertices([k \in 1..(PathLen - 1) |-> <<k, k + 1>>], PathLen),
      pos |-> [v \in 1..PathLen |->
                  2 * v + Cardinality({x \in SourcesOf(PathLen) : x < v})],
      lin |-> ln] :
        ln \in {f \in [SourcesOf(PathLen) -> LinValues] :
                   f[1] = 1 /\ f[1 + 2 * STRIDE] = 2}}

g_n == Len(g_adj)
\* const uint32_t K = std::min<uint32_t>(70, vertCount)
K == Min2(K_MAX, g_n)
EdgeLen(u, v) == Abs(g_pos[v] - g_pos[u])

GatherInit ==
    /\ gpc = "source" /\ g_src = 1
    /\ \E m \in SmallMeshes \cup PathMeshes :
         g_adj = m.adj /\ g_pos = m.pos /\ g_lin = m.lin
    /\ pq = {} /\ neighbor_idxs = <<>> /\ g_fin = <<>>
    /\ visit_tag = [v \in 1..Len(g_adj) |-> 0]
    /\ graph_dist = [v \in 1..Len(g_adj) |-> 0]
    /\ g_votes = [v \in 1..Len(g_adj) |-> <<>>]
    /\ g_scores = [v \in 1..Len(g_adj) |-> [kind |-> "lin", val |-> 0]]
    /\ fin_by = [v \in 1..Len(g_adj) |-> {}]

\* lines 276-287: the next source is queued at distance 0
StartSource ==
    /\ gpc = "source" /\ g_src <= g_n
    /\ neighbor_idxs' = <<>> /\ g_fin' = <<>>
    /\ pq' = {<<0, g_src>>}
    /\ visit_tag' = [visit_tag EXCEPT ![g_src] = g_src]
    /\ graph_dist' = [graph_dist EXCEPT ![g_src] = 0]
    /\ gpc' = "gather"
    /\ UNCHANGED <<g_adj, g_pos, g_lin, g_src, g_votes, g_scores, fin_by>>
    /\ UNCHANGED <<ipcVars, wireVars, mbbVars, sliceVars, ufVars, adjVars, countVars, islandVars>>

\* a variant that walks the edges of length zero too
Walkable_ZeroToo(w) == w >= 0
\* if (w <= 0.0f) continue;
Walkable(w) == ~(w <= 0)

\* lines 301-318: the neighbors of u, in the order of its list
RECURSIVE Expand(_, _, _, _, _)
Expand(nbrs, k, u, dist_u, st) ==
    IF k > Len(nbrs) THEN st
    ELSE LET v == nbrs[k]
             w == EdgeLen(u, v)
             newDist == dist_u + w
         IN  IF ~Walkable(w) THEN Expand(nbrs, k + 1, u, dist_u, st)
             ELSE IF st.tag[v] # g_src \/ newDist < st.dist[v]
             THEN Expand(nbrs, k + 1, u, dist_u,
                         [pq |-> st.pq \cup {<<newDist, v>>},
                          tag |-> [st.tag EXCEPT ![v] = g_src],
                          dist |-> [st.dist EXCEPT ![v] = newDist]])
             ELSE Expand(nbrs, k + 1, u, dist_u, st)

\* one iteration of while (!pq.empty() && neighbor_idxs.size() < K): the top
\* of the queue is an entry of least distance
PopStep ==
    /\ gpc = "gather" /\ pq # {} /\ Len(neighbor_idxs) < K
    /\ \E top \in pq :
         /\ \A it \in pq : top[1] <= it[1]
         /\ LET dist_u == top[1]
                u == top[2]
            IN  IF visit_tag[u] # g_src \/ dist_u # graph_dist[u]
                THEN /\ pq' = pq \ {top}
                     /\ UNCHANGED <<visit_tag, graph_dist, neighbor_idxs, g_fin, fin_by>>
                ELSE LET st == Expand(g_adj[u], 1, u, dist_u,
                                      [pq |-> pq \ {top}, tag |-> visit_tag,
                                       dist |-> graph_dist])
                     IN  /\ neighbor_idxs' = Append(neighbor_idxs, u)
                         /\ g_fin' = Append(g_fin, <<u, dist_u>>)
                         /\ fin_by' = [fin_by EXCEPT ![u] = @ \cup {<<g_src, dist_u>>}]
                         /\ pq' = st.pq /\ visit_tag' = st.tag /\ graph_dist' = st.dist
    /\ UNCHANGED <<gpc, g_adj, g_pos, g_lin, g_src, g_votes, g_scores>>
    /\ UNCHANGED <<ipcVars, wireVars, mbbVars, sliceVars, ufVars, adjVars, countVars, islandVars>>

\* lines 336-349: the votes of one source for the vertices it finalized
RECURSIVE AddVotes(_, _, _, _)
AddVotes(idxs, k, lin, votes) ==
    IF k > Len(idxs) THEN votes
    ELSE LET idx_n == idxs[k]
             d == graph_dist[idx_n]
         IN  IF visit_tag[idx_n] # g_src \/ d <= 0
             THEN AddVotes(idxs, k + 1, lin, votes)
             ELSE AddVotes(idxs, k + 1, lin,
                     [votes EXCEPT ![idx_n] =
                         Append(@, [src |-> g_src, d |-> d, lin |-> lin])])

\* lines 322-350: the gather is over; the source's linearity and its votes
ScoreSource ==
    /\ gpc = "gather" /\ ~(pq # {} /\ Len(neighbor_idxs) < K)
    /\ LET idxs == IF neighbor_idxs = <<>> THEN <<g_src>> ELSE neighbor_idxs
           lin == g_lin[g_src]
       IN  /\ g_scores' = [g_scores EXCEPT ![g_src] = [kind |-> "lin", val |-> lin]]
           /\ g_votes' = AddVotes(idxs, IF Len(idxs) > 1 THEN 2 ELSE 1, lin, g_votes)
    /\ g_src' = g_src + STRIDE
    /\ gpc' = "source"
    /\ UNCHANGED <<g_adj, g_pos, g_lin, pq, visit_tag, graph_dist, neighbor_idxs,
                   g_fin, fin_by>>
    /\ UNCHANGED <<ipcVars, wireVars, mbbVars, sliceVars, ufVars, adjVars, countVars, islandVars>>

\* if (linearity_scores[i] == 0.0f)
Replaced(v, score) == score.kind = "lin" /\ score.val = 0

\* lines 352-359: the scores that are 0 are replaced by the estimate
FinalScores ==
    /\ gpc = "source" /\ g_src > g_n
    /\ g_scores' = [v \in 1..g_n |->
                       IF Replaced(v, g_scores[v])
                       THEN [kind |-> "est", terms |-> g_votes[v]]
                       ELSE g_scores[v]]
    /\ gpc' = "done"
    /\ UNCHANGED <<g_adj, g_pos, g_lin, g_src, pq, visit_tag, graph_dist,
                   neighbor_idxs, g_votes, g_fin, fin_by>>
    /\ UNCHANGED <<ipcVars, wireVars, mbbVars, sliceVars, ufVars, adjVars, countVars, islandVars>>

InitGather ==
    GatherInit /\ IpcIdle /\ WireIdle /\ MbbIdle /\ SliceIdle /\ UfIdle /\ AdjIdle
        /\ CountIdle /\ IslandIdle
NextGather == StartSource \/ PopStep \/ ScoreSource \/ FinalScores
SpecGather == InitGather /\ [][NextGather]_vars

\* ------------------------------------------------------------------------
\* Vocabulary of the claims about the gather and the scores
\* ------------------------------------------------------------------------
Least(S) == CHOOSE x \in S : \A y \in S : x <= y
\* one round of relaxation of the distances d (below 0: not reached); an
\* edge of length zero is walked only if zeroOk
DistStep(d, zeroOk) ==
    [v \in 1..g_n |->
        LET via == {d[u] + EdgeLen(u, v) :
                       u \in {x \in Range(g_adj[v]) :
                                 d[x] >= 0 /\ (zeroOk \/ EdgeLen(x, v) > 0)}}
            all == via \cup (IF d[v] >= 0 THEN {d[v]} ELSE {})
        IN  IF all = {} THEN 0 - 1 ELSE Least(all)]
RECURSIVE DistFix(_, _)
DistFix(d, zeroOk) ==
    LET d2 == DistStep(d, zeroOk) IN IF d2 = d THEN d ELSE DistFix(d2, zeroOk)
\* the graph distance of every vertex from src: the least sum of edge
\* lengths over the paths from src
GraphDist(src, zeroOk) ==
    DistFix([v \in 1..g_n |-> IF v = src THEN 0 ELSE 0 - 1], zeroOk)

\* the source of the gather that runs or has just ended
GatherSource == IF gpc = "gather" THEN g_src ELSE g_src - STRIDE
GatherEnded == gpc = "source" /\ g_src > 1

\* the order of finalization with respect to the distances d
GatherInOrder(d) ==
    /\ Len(neighbor_idxs) <= K
    /\ neighbor_idxs # <<>> => neighbor_idxs[1] = GatherSource
    /\ \A j, k \in 1..Len(neighbor_idxs) : j # k => neighbor_idxs[j] # neighbor_idxs[k]
    /\ \A j \in 1..Len(neighbor_idxs) : d[neighbor_idxs[j]] >= 0
    /\ \A j \in 1..(Len(neighbor_idxs) - 1) :
         d[neighbor_idxs[j]] <= d[neighbor_idxs[j + 1]]
    /\ GatherEnded => (Len(neighbor_idxs) = K \/ pq = {})

\* C23: the gather of a source finalizes at most K vertices, the source
\* first, each once, in non-decreasing order of their graph distance from
\* the source, and only vertices reachable from it; it has stopped with K
\* vertices finalized or with an empty frontier.
C23_GatherInDistanceOrder ==
    gpc \in {"gather", "source"} => GatherInOrder(GraphDist(GatherSource, TRUE))

\* C23 as amended: the same, the graph distance being measured over the
\* edges of positive length, which are the ones the gather walks; the
\* distance recorded for a finalized vertex is that distance.
C23_GatherInWalkedDistanceOrder ==
    gpc \in {"gather", "source"} =>
        LET d == GraphDist(GatherSource, FALSE)
        IN  /\ GatherInOrder(d)
            /\ Len(g_fin) = Len(neighbor_idxs)
            /\ \A j \in 1..Len(g_fin) :
                 g_fin[j] = <<neighbor_idxs[j], d[neighbor_idxs[j]]>>

\* a gather that ran out of entries after it finalized, by a longer way, a
\* vertex that an edge of length zero joins to a nearer one
C23_Witness ==
    /\ GatherEnded /\ pq = {} /\ Len(neighbor_idxs) >= 3
    /\ \E j \in 1..Len(neighbor_idxs) :
         GraphDist(GatherSource, TRUE)[neighbor_idxs[j]] < g_fin[j][2]

\* a gather that stopped at K vertices with entries left in the queue
StoppedAtK == GatherEnded /\ Len(neighbor_idxs) = K_MAX /\ pq # {}

IsSource(v) == v \in SourcesOf(g_n)
Lin(x) == [kind |-> "lin", val |-> x]
\* the score is the estimate made of the votes of exactly the gathers that
\* finalized v, each weighted by the inverse square of its distance
EstimateOfFinalizers(v) ==
    /\ g_scores[v].kind = "est"
    /\ Len(g_scores[v].terms) = Cardinality(fin_by[v])
    /\ {<<t.src, t.d, t.lin>> : t \in Range(g_scores[v].terms)}
          = {<<f[1], f[2], g_lin[f[1]]>> : f \in fin_by[v]}
\* the score is 0
ZeroScore(sc) ==
    IF sc.kind = "lin" THEN sc.val = 0
    ELSE \A t \in Range(sc.terms) : t.lin = 0
KeepsOwnLinearity(v) ==
    IF g_lin[v] = 0 THEN ZeroScore(g_scores[v]) ELSE g_scores[v] = Lin(g_lin[v])

\* C22: in the final scores a source keeps the linearity computed for it,
\* and every other vertex has the weighted average of the linearity of the
\* sources whose gather finalized it, of which there is at least one.
C22_EveryVertexScored ==
    gpc = "done" =>
        \A v \in 1..g_n :
            IF IsSource(v) THEN KeepsOwnLinearity(v)
            ELSE EstimateOfFinalizers(v) /\ fin_by[v] # {}

\* C22 without the vertices no gather finalized and the sources of
\* linearity 0
C22_FinalizedVerticesAveraged ==
    gpc = "done" =>
        \A v \in 1..g_n :
            IF IsSource(v) THEN g_lin[v] # 0 => g_scores[v] = Lin(g_lin[v])
            ELSE EstimateOfFinalizers(v)

\* C22 for the sources alone
C22_SourceKeepsOwnLinearity ==
    gpc = "done" => \A v \in 1..g_n : IsSource(v) => KeepsOwnLinearity(v)

\* ------------------------------------------------------------------------
\* main.cpp: responses per request
\* ------------------------------------------------------------------------
\* the body has run for a request whose id is absent or numeric
RequestServed == pc = "done" /\ line.kind = "req" /\ DigitsId
\* one line was written in this pass of the loop, it carries the id of the
\* request, and the loop goes on to the next getline
OneResponseWithId ==
    /\ Len(resp) = 1 /\ resp[1].id = RequestId
    /\ status = "running"

\* C24: a request whose id is numeric or absent has, when the loop body ends
\* (before the next line is read), exactly one response line, which carries
\* the id of the request (-1 without id); none has zero or two.
C24_OneResponsePerRequest == RequestServed => OneResponseWithId

\* C24 for the requests whose id fits an int and that trigger no undefined read
C24_OneResponseWithoutUndefinedRead ==
    (RequestServed /\ NumericId /\ UbChoices(line) = {"none"}) => OneResponseWithId

\* C24 for the requests that trigger no undefined read, whatever the length
\* of the id
C24_OneResponseWhateverTheId ==
    (RequestServed /\ UbChoices(line) = {"none"}) => OneResponseWithId

\* C24, the count over the run: the body of the loop writes one line for
\* such a request, or none when the process dies in the pipeline
C24_WritesAtMostOne ==
    [][(pc = "handle" /\ line.kind = "req" /\ DigitsId)
          => (nout' = nout + 1 \/ (nout' = nout /\ status' = "aborted"))]_vars

\* ------------------------------------------------------------------------
\* analysis.cpp:125-229: build_slice_islands for one slice of a mesh of
\* three vertices: the counting pass, the allocation and the placement
\* pass.  The arguments are those the driver hands over (its buckets, its
\* component roots, its map from roots to indices).  Component indices and
\* positions in the point array are 0-based as in the code; a cell of
\* all_points holds the points written to it, in order.
\* ------------------------------------------------------------------------
IslandEdgeLists ==
    { << <<1, 2>> >>, << <<2, 1>> >>,
      << <<1, 2>>, <<2, 3>> >>, << <<1, 2>>, <<3, 1>> >>,
      << <<1, 2>>, <<1, 2>> >>, << <<1, 2>>, <<3, 3>> >> }
IslandMeshes ==
    {[verts_null |-> FALSE, edges_null |-> FALSE,
      vertCount |-> 3, vert_z |-> vz, edgeCount |-> Len(es), edges |-> es,
      min_corner |-> <<0, 0, 0>>, max_z |-> ZMax, slice_height |-> h] :
        vz \in [1..3 -> 0..ZMax], es \in IslandEdgeLists, h \in 1..MaxSliceHeight}

\* lines 329-339: every edge united, then vertex_comp[i] = uf_find(i)
RECURSIVE UniteLoop(_, _, _, _)
UniteLoop(parent, rank, es, ei) ==
    IF ei > Len(es) THEN parent
    ELSE LET u == UfUnite(parent, rank, es[ei][1], es[ei][2])
         IN  UniteLoop(u.parent, u.rank, es, ei + 1)
RECURSIVE RootsLoop(_, _, _)
RootsLoop(parent, i, acc) ==
    IF i > Len(parent) THEN acc
    ELSE LET f == UfFind(parent, i) IN RootsLoop(f.parent, i + 1, Append(acc, f.root))
VertexComp(m) ==
    RootsLoop(UniteLoop([i \in 1..m.vertCount |-> i], [i \in 1..m.vertCount |-> 0],
                        m.edges, 1),
              1, <<>>)

\* lines 342-353: the roots numbered 0, 1, ... in the iteration order of an
\* unordered_set, which is any order
CidToIndexChoices(comp) ==
    LET cids == Range(comp)
    IN  {f \in [cids -> 0..(Cardinality(cids) - 1)] :
            \A a, b \in cids : a # b => f[a] # f[b]}

\* lines 355-364: the calls of the driver, one per slice with edges
IslandCalls ==
    UNION {
      {[vert_z |-> m.vert_z, edges |-> m.edges,
        slice_edge_indices |-> BucketEdgesPerSlice(m)[k],
        z_lower |-> MakeSliceBounds(m)[k].z_lower,
        z_upper |-> MakeSliceBounds(m)[k].z_upper,
        slice_verts |-> BucketVertices(m)[k],
        vertex_comp |-> VertexComp(m), cid_to_index |-> f,
        num_components |-> Cardinality(Range(VertexComp(m)))] :
          k \in {j \in 1..slice_count(m) : BucketEdgesPerSlice(m)[j] # <<>>},
          f \in CidToIndexChoices(VertexComp(m))} :
      m \in IslandMeshes }

CompIds == 0..(b_in.num_components - 1)
\* idx = cid_to_index[vertex_comp[vid]]
CompIndex(vid) == b_in.cid_to_index[b_in.vertex_comp[vid]]

\* a variant of the counting pass that leaves out the upper plane for an
\* edge with both ends outside the slice
CountedPoints_LowerOnly(zA, zB, z_lower, z_upper) ==
    LET A_inside == Inside(zA, z_lower, z_upper)
        B_inside == Inside(zB, z_lower, z_upper)
    IN  IF zB - zA = 0 THEN 0
        ELSE IF ~A_inside /\ ~B_inside
             THEN (IF Crosses(zA, zB, z_lower) THEN 1 ELSE 0)
        ELSE IF A_inside # B_inside
             THEN (IF Crosses(zA, zB, z_lower) THEN 1
                   ELSE IF Crosses(zA, zB, z_upper) THEN 1 ELSE 0)
        ELSE 0
\* lines 150-171: what one edge adds to component_sizes[idx]
CountedPoints(zA, zB, z_lower, z_upper) ==
    LET A_inside == Inside(zA, z_lower, z_upper)
        B_inside == Inside(zB, z_lower, z_upper)
    IN  IF zB - zA = 0 THEN 0
        ELSE IF ~A_inside /\ ~B_inside
             THEN (IF Crosses(zA, zB, z_lower) THEN 1 ELSE 0)
                    + (IF Crosses(zA, zB, z_upper) THEN 1 ELSE 0)
        ELSE IF A_inside # B_inside
             THEN (IF Crosses(zA, zB, z_lower) THEN 1
                   ELSE IF Crosses(zA, zB, z_upper) THEN 1 ELSE 0)
        ELSE 0

IslandInit ==
    /\ bpc = "count_verts"
    /\ b_in \in IslandCalls
    /\ b_k = 0
    /\ component_sizes = [i \in 0..(b_in.num_components - 1) |-> 0]
    /\ component_starts = <<>> /\ current_pos = <<>> /\ all_points = <<>>

\* lines 145-149, one iteration
CountVertex ==
    /\ bpc = "count_verts" /\ b_k < Len(b_in.slice_verts)
    /\ LET vid == b_in.slice_verts[b_k + 1]
       IN  component_sizes' = [component_sizes EXCEPT ![CompIndex(vid)] = @ + 1]
    /\ b_k' = b_k + 1
    /\ UNCHANGED <<bpc, b_in, component_starts, current_pos, all_points>>
    /\ UNCHANGED <<ipcVars, wireVars, mbbVars, sliceVars, ufVars, adjVars,
                   countVars, gatherVars>>

\* lines 150-171, one iteration
CountEdge ==
    /\ bpc = "count_edges" /\ b_k < Len(b_in.slice_edge_indices)
    /\ LET e == b_in.edges[b_in.slice_edge_indices[b_k + 1]]
           n == CountedPoints(b_in.vert_z[e[1]], b_in.vert_z[e[2]],
                              b_in.z_lower, b_in.z_upper)
       IN  component_sizes' = [component_sizes EXCEPT ![CompIndex(e[1])] = @ + n]
    /\ b_k' = b_k + 1
    /\ UNCHANGED <<bpc, b_in, component_starts, current_pos, all_points>>
    /\ UNCHANGED <<ipcVars, wireVars, mbbVars, sliceVars, ufVars, adjVars,
                   countVars, gatherVars>>

\* the list a loop runs over, and what follows the loop
LoopList(at) ==
    IF at \in {"count_verts", "place_verts"} THEN b_in.slice_verts
    ELSE b_in.slice_edge_indices
AfterLoop(at) ==
    CASE at = "count_verts" -> "count_edges" [] at = "count_edges" -> "alloc"
      [] at = "place_verts" -> "place_edges" [] at = "place_edges" -> "done"
LoopExit ==
    /\ bpc \in {"count_verts", "count_edges", "place_verts", "place_edges"}
    /\ b_k = Len(LoopList(bpc))
    /\ bpc' = AfterLoop(bpc) /\ b_k' = 0
    /\ UNCHANGED <<b_in, component_sizes, component_starts, current_pos, all_points>>
    /\ UNCHANGED <<ipcVars, wireVars, mbbVars, sliceVars, ufVars, adjVars,
                   countVars, gatherVars>>

\* lines 174-184: the prefix sums, the point array and the write positions
RECURSIVE SizesBelow(_)
SizesBelow(i) == IF i = 0 THEN 0 ELSE SizesBelow(i - 1) + component_sizes[i - 1]
Allocate ==
    /\ bpc = "alloc"
    /\ component_starts' = [i \in 0..b_in.num_components |-> SizesBelow(i)]
    /\ current_pos' = [i \in 0..b_in.num_components |-> SizesBelow(i)]
    /\ all_points' = [c \in 1..SizesBelow(b_in.num_components) |-> <<>>]
    /\ bpc' = "place_verts"
    /\ UNCHANGED <<b_in, b_k, component_sizes>>
    /\ UNCHANGED <<ipcVars, wireVars, mbbVars, sliceVars, ufVars, adjVars,
                   countVars, gatherVars>>

\* all_points[current_pos[idx]] = p; current_pos[idx]++; for the points of
\* one element.  A position at or past all_points.size() is a write outside
\* the vector.
RECURSIVE PlaceAll(_, _, _, _)
PlaceAll(cells, pos, idx, pts) ==
    IF pts = <<>> THEN [cells |-> cells, pos |-> pos, fault |-> FALSE]
    ELSE IF pos[idx] >= Len(cells) THEN [cells |-> cells, pos |-> pos, fault |-> TRUE]
    ELSE PlaceAll([cells EXCEPT ![pos[idx] + 1] = Append(@, Head(pts))],
                  [pos EXCEPT ![idx] = @ + 1], idx, Tail(pts))
Placed(idx, pts) ==
    LET r == PlaceAll(all_points, current_pos, idx, pts)
    IN  /\ all_points' = r.cells /\ current_pos' = r.pos
        /\ IF r.fault THEN bpc' = "fault" /\ b_k' = b_k
           ELSE bpc' = bpc /\ b_k' = b_k + 1

\* lines 185-190, one iteration
PlaceVertex ==
    /\ bpc = "place_verts" /\ b_k < Len(b_in.slice_verts)
    /\ LET vid == b_in.slice_verts[b_k + 1]
       IN  Placed(CompIndex(vid), <<[comp |-> CompIndex(vid), vert |-> vid]>>)
    /\ UNCHANGED <<b_in, component_sizes, component_starts>>
    /\ UNCHANGED <<ipcVars, wireVars, mbbVars, sliceVars, ufVars, adjVars,
                   countVars, gatherVars>>

\* lines 191-229, one iteration
PlaceEdge ==
    /\ bpc = "place_edges" /\ b_k < Len(b_in.slice_edge_indices)
    /\ LET ei == b_in.slice_edge_indices[b_k + 1]
           e == b_in.edges[ei]
           planes == AddedPoints(b_in.vert_z[e[1]], b_in.vert_z[e[2]],
                                 b_in.z_lower, b_in.z_upper)
       IN  Placed(CompIndex(e[1]),
                  [j \in 1..Len(planes) |->
                      [comp |-> CompIndex(e[1]), edge |-> ei, plane |-> planes[j]]])
    /\ UNCHANGED <<b_in, component_sizes, component_starts>>
    /\ UNCHANGED <<ipcVars, wireVars, mbbVars, sliceVars, ufVars, adjVars,
                   countVars, gatherVars>>

InitIsland ==
    IslandInit /\ IpcIdle /\ WireIdle /\ MbbIdle /\ SliceIdle /\ UfIdle /\ AdjIdle
        /\ CountIdle /\ GatherIdle
NextIsland ==
    CountVertex \/ CountEdge \/ LoopExit \/ Allocate \/ PlaceVertex \/ PlaceEdge
SpecIsland == InitIsland /\ [][NextIsland]_vars

\* the placement pass is under way or over
Placing == bpc \in {"place_verts", "place_edges", "done"}
\* the cells of component i written so far hold one point each, a point of
\* component i, and the rest of its range holds none
RangeInOrder(i) ==
    /\ component_starts[i] <= current_pos[i]
    /\ current_pos[i] <= component_starts[i + 1]
    /\ \A c \in (component_starts[i] + 1)..current_pos[i] :
          Len(all_points[c]) = 1 /\ all_points[c][1].comp = i
    /\ \A c \in (current_pos[i] + 1)..component_starts[i + 1] : all_points[c] = <<>>

\* C25: the placement pass writes for every component as many points as the
\* counting pass counted for it: every write lands in the component's own
\* range [start_i, start_{i+1}) of the point array, no range is overrun, and
\* at the end no range is left partly unwritten.
C25_PassesAgree ==
    /\ bpc # "fault"
    /\ Placing => \A i \in CompIds : RangeInOrder(i)
    /\ bpc = "done" =>
          \A i \in CompIds :
              /\ current_pos[i] = component_starts[i + 1]
              /\ current_pos[i] - component_starts[i] = component_sizes[i]

\* both passes are over for a slice with two components that hold points,
\* vertices of the slice among them, and an edge that crosses both planes
C25_Witness ==
    /\ bpc = "done" /\ b_in.num_components = 2
    /\ \A i \in CompIds : component_sizes[i] > 0
    /\ b_in.slice_verts # <<>>
    /\ \E c \in 1..(Len(all_points) - 1) :
          /\ Len(all_points[c]) = 1 /\ Len(all_points[c + 1]) = 1
          /\ "edge" \in DOMAIN all_points[c][1]
          /\ "edge" \in DOMAIN all_points[c + 1][1]
          /\ all_points[c][1].edge = all_points[c + 1][1].edge

\* ------------------------------------------------------------------------
\* bounds.cpp, elim_wires: termination.  The two halves of the detector (the
\* loop over the sources with its priority queue, lines 276-350, and the
\* flood fill and the regrowth, lines 365-445) run under weak fairness: a
\* statement that can run does run.
\* ------------------------------------------------------------------------
InitDetector == InitWire \/ InitGather
NextDetector == NextWire \/ NextGather
FairSpecDetector ==
    InitDetector /\ [][NextDetector]_vars /\ WF_vars(NextDetector)

\* the flood fill that would start at vertex i pops no vertex twice
RECURSIVE NoRepeats(_)
NoRepeats(t) == t = <<>> \/ (Head(t) \notin Range(Tail(t)) /\ NoRepeats(Tail(t)))
FloodPopsOnce ==
    wpc = "groups" =>
        \A i \in wi..vertCount : UnvisitedWire(i) => NoRepeats(FloodGroup(i).group)
\* no vertex has been promoted twice
PromotedOnce == wpc # "off" => \A v \in Verts : promoted[v] <= 1

\* the loop over the sources has ended (and with it the expansion of every
\* source), or the detector has returned (past every flood fill, with the
\* regrowth queue empty)
DetectorEnded == gpc = "done" \/ (wpc = "done" /\ queue = <<>>)

\* C26: on every mesh the detector runs to its end: the expansion of every
\* source leaves its while loop, the loop over the wire components and
\* their flood fills ends, the regrowth queue runs empty; no flood fill pops
\* a vertex twice and regrowth promotes no vertex twice.
C26_DetectorTerminates ==
    /\ <>DetectorEnded
    /\ []FloodPopsOnce
    /\ []PromotedOnce

\* the detector has returned for a mesh whose free vertices form a cycle,
\* one of them with a self-loop; regrowth promoted that vertex and another
C26_Witness ==
    /\ wpc = "done"
    /\ \E v \in Verts :
         /\ v \in Neighbors(v) /\ promoted[v] = 1
         /\ \E a, b \in Verts \ {v} :
              /\ a # b /\ a \in Neighbors(v) /\ b \in Neighbors(v) /\ a \in Neighbors(b)
              /\ promoted[a] = 1

====
